---------------------------- MODULE Spec2Model ----------------------------
(***************************************************************************)
(* Butterfly: lexer -> parser -> compiler -> stack VM.                     *)
(*                                                                         *)
(* Source text is a sequence of bytes (0..255): the lexer reads            *)
(* rune(input[pos]), one byte at a time.  A string is a sequence of byte   *)
(* values.  A 64-bit signed integer is four 16-bit limbs, least            *)
(* significant first, in two's complement.                                 *)
(***************************************************************************)
EXTENDS Integers, Sequences, FiniteSets, TLC

VARIABLES
    lx,        \* the Lexer: [input, pos, line, column, currentChar]
    tok,       \* the Token the last NextToken call returned (NoToken before)
    fatal,     \* the panic that ended the process (NoPanic while it runs)
    p,         \* the Parser: [errors, curToken, peekToken]
    program,   \* the *ast.Program ParseProgram returned
    c,         \* the Compiler: [chain, instructions, constants]
    vm,        \* the VM: [bytecode, stack, sp]
    ip,        \* VM.Run's instruction pointer
    runErr,    \* what VM.Run returned (NoResult while it has not returned)
    top,       \* what the last StackTop call returned
    pc,        \* where main (or the test driving the component) stands
    given,     \* what the input was built from
    calls,     \* how many calls the holder of a component has made on its own
    ret,       \* what the last of those calls returned: [op, value]
    str        \* the call of Instructions.String: [ins, i, out, n]

vars ==
    <<lx, tok, fatal, p, program, c, vm, ip, runErr, top, pc, given, calls, ret, str>>

--------------------------------------------------------------------------
(* Characters *)

\* The element of a singleton.  The({e(x) : x \in {v}}) is e with x
\* standing for the value of v, computed once.
The(S) == CHOOSE x \in S : TRUE

Printable ==
    <<" ", "!", "\"", "#", "$", "%", "&", "'", "(", ")", "*", "+", ",", "-",
      ".", "/", "0", "1", "2", "3", "4", "5", "6", "7", "8", "9", ":", ";",
      "<", "=", ">", "?", "@", "A", "B", "C", "D", "E", "F", "G", "H", "I",
      "J", "K", "L", "M", "N", "O", "P", "Q", "R", "S", "T", "U", "V", "W",
      "X", "Y", "Z", "[", "\\", "]", "^", "_", "backquote", "a", "b", "c", "d", "e",
      "f", "g", "h", "i", "j", "k", "l", "m", "n", "o", "p", "q", "r", "s",
      "t", "u", "v", "w", "x", "y", "z", "{", "|", "}", "~">>

\* The byte value of a character written as a one-character string.
Ord ==
    [ch \in {Printable[i] : i \in 1..Len(Printable)} \cup {"\t", "\n", "\r"} |->
        CASE ch = "\t" -> 9
          [] ch = "\n" -> 10
          [] ch = "\r" -> 13
          [] OTHER -> 31 + (CHOOSE i \in 1..Len(Printable) : Printable[i] = ch)]

\* The bytes of a string written as a sequence of one-character strings.
Str(s) == [i \in 1..Len(s) |-> Ord[s[i]]]

\* unicode.IsSpace, unicode.IsLetter, unicode.IsDigit on rune(byte): the
\* Latin-1 range of the tables of package unicode.
IsSpace(r) == r \in {9, 10, 11, 12, 13, 32, 133, 160}

IsLetter(r) ==
    \/ r \in 65..90
    \/ r \in 97..122
    \/ r \in {170, 181, 186}
    \/ r \in 192..214
    \/ r \in 216..246
    \/ r \in 248..255

IsDigit(r) == r \in 48..57

--------------------------------------------------------------------------
(* Tokens *)

Keywords ==
    <<"PUBLIC", "CLASS", "STATIC", "VOID", "MAIN", "CHAR", "INT", "PRINTF",
      "SCANF", "SWITCH", "CASE", "DEFAULT", "FOR", "IF", "ELSE", "WHILE",
      "DO", "RETURN", "BREAK", "CONTINUE">>

KeywordTypes == {Keywords[i] : i \in 1..Len(Keywords)}

TokenType ==
    KeywordTypes \cup
    {"IDENTIFIER", "STRING", "CharConst", "NUMBER",
     "ASSIGN", "PLUS", "MINUS", "MULTIPLY", "DIVIDE", "LESS", "LessEqual",
     "GREAT", "GreatEqual", "NOTEQ", "NOT", "EQUAL",
     "COMMA", "SEMICOLON", "COLON", "LeftParen", "RightParen", "LeftBrace",
     "RightBrace", "LeftBrack", "RightBrack", "EOF"}

Token(type, value, line, column) ==
    [Type |-> type, Value |-> value, Line |-> line, Column |-> column]

\* The zero Token: the value of a Token field no call has assigned yet.
ZeroToken == [Type |-> "PUBLIC", Value |-> <<>>, Line |-> 0, Column |-> 0]

NoToken == [Type |-> "none"]

reverseKeywords ==
    <<[word |-> Str(<<"p", "u", "b", "l", "i", "c">>), type |-> "PUBLIC"],
      [word |-> Str(<<"c", "l", "a", "s", "s">>), type |-> "CLASS"],
      [word |-> Str(<<"s", "t", "a", "t", "i", "c">>), type |-> "STATIC"],
      [word |-> Str(<<"v", "o", "i", "d">>), type |-> "VOID"],
      [word |-> Str(<<"m", "a", "i", "n">>), type |-> "MAIN"],
      [word |-> Str(<<"c", "h", "a", "r">>), type |-> "CHAR"],
      [word |-> Str(<<"i", "n", "t">>), type |-> "INT"],
      [word |-> Str(<<"p", "r", "i", "n", "t", "f">>), type |-> "PRINTF"],
      [word |-> Str(<<"s", "c", "a", "n", "f">>), type |-> "SCANF"],
      [word |-> Str(<<"s", "w", "i", "t", "c", "h">>), type |-> "SWITCH"],
      [word |-> Str(<<"c", "a", "s", "e">>), type |-> "CASE"],
      [word |-> Str(<<"d", "e", "f", "a", "u", "l", "t">>), type |-> "DEFAULT"],
      [word |-> Str(<<"f", "o", "r">>), type |-> "FOR"],
      [word |-> Str(<<"i", "f">>), type |-> "IF"],
      [word |-> Str(<<"e", "l", "s", "e">>), type |-> "ELSE"],
      [word |-> Str(<<"w", "h", "i", "l", "e">>), type |-> "WHILE"],
      [word |-> Str(<<"d", "o">>), type |-> "DO"],
      [word |-> Str(<<"r", "e", "t", "u", "r", "n">>), type |-> "RETURN"],
      [word |-> Str(<<"b", "r", "e", "a", "k">>), type |-> "BREAK"],
      [word |-> Str(<<"c", "o", "n", "t", "i", "n", "u", "e">>), type |-> "CONTINUE"]>>

\* code, exists := reverseKeywords[value]
\* A lookup that also finds a reserved word at the start of a longer word.
KeywordLookupByPrefix(value) ==
    LET hits == {i \in 1..Len(reverseKeywords) :
                    /\ Len(reverseKeywords[i].word) <= Len(value)
                    /\ SubSeq(value, 1, Len(reverseKeywords[i].word)) = reverseKeywords[i].word}
    IN  IF hits = {} THEN [exists |-> FALSE, code |-> "PUBLIC"]
        ELSE [exists |-> TRUE, code |-> reverseKeywords[CHOOSE i \in hits : TRUE].type]

\* code, exists := reverseKeywords[value]
KeywordLookup(value) ==
    LET hits == {i \in 1..Len(reverseKeywords) : reverseKeywords[i].word = value}
    IN  IF hits = {} THEN [exists |-> FALSE, code |-> "PUBLIC"]
        ELSE [exists |-> TRUE, code |-> reverseKeywords[CHOOSE i \in hits : TRUE].type]

--------------------------------------------------------------------------
(* Lexer *)

NoPanic == [kind |-> "none"]

\* panic(fmt.Sprintf(...)): the message's kind and the values it formats.
Panic(kind, ch, line, column) ==
    [kind |-> kind, ch |-> ch, line |-> line, column |-> column]

\* What a lexer method leaves: the lexer, the token it returned, its panic.
Returned(l, t) == [l |-> l, tok |-> t, panic |-> NoPanic]

Panicked(l, pn) == [l |-> l, tok |-> NoToken, panic |-> pn]

\* lexer.New
NewLexer(input) ==
    [input |-> input, pos |-> 0, line |-> 1, column |-> 1,
     currentChar |-> IF Len(input) > 0 THEN input[1] ELSE 0]

\* An advance that, leaving a newline, sets the column to 1 before it adds
\* the 1 of every move.
advanceColumnOne(l) ==
    LET l1 == IF l.currentChar = Ord["\n"]
              THEN [l EXCEPT !.line = @ + 1, !.column = 1]
              ELSE l
        pos == l1.pos + 1
    IN  [l1 EXCEPT !.pos = pos,
                   !.currentChar = IF pos >= Len(l.input) THEN 0 ELSE l.input[pos + 1],
                   !.column = @ + 1]

\* Lexer.advance
advance(l) ==
    LET l1 == IF l.currentChar = Ord["\n"]
              THEN [l EXCEPT !.line = @ + 1, !.column = 0]
              ELSE l
        pos == l1.pos + 1
    IN  [l1 EXCEPT !.pos = pos,
                   !.currentChar = IF pos >= Len(l.input) THEN 0 ELSE l.input[pos + 1],
                   !.column = @ + 1]

\* Lexer.skipWhitespace
RECURSIVE skipWhitespace(_)
skipWhitespace(l) ==
    IF IsSpace(l.currentChar) THEN skipWhitespace(advance(l)) ELSE l

\* The loop of readIdentifier.
RECURSIVE advanceLetterDigits(_)
advanceLetterDigits(l) ==
    IF IsLetter(l.currentChar) \/ IsDigit(l.currentChar)
    THEN advanceLetterDigits(advance(l))
    ELSE l

\* The loop of readNumber.
RECURSIVE advanceDigits(_)
advanceDigits(l) ==
    IF IsDigit(l.currentChar) THEN advanceDigits(advance(l)) ELSE l

\* l.input[startPos:l.pos]
Slice(input, from, to) == [i \in 1..(to - from) |-> input[from + i]]

\* Lexer.readIdentifier
\* The token of readIdentifier; l1 is the lexer after its loop.
IdentifierToken(l, l1, value) ==
    The({Token(IF kw.exists THEN kw.code ELSE "IDENTIFIER", value, l.line, l.column)
         : kw \in {KeywordLookup(value)}})

readIdentifier(l) ==
    The({Returned(l1, IdentifierToken(l, l1, Slice(l.input, l.pos, l1.pos)))
         : l1 \in {advanceLetterDigits(l)}})

\* Lexer.readNumber
readNumber(l) ==
    The({Returned(l1, Token("NUMBER", Slice(l.input, l.pos, l1.pos), l.line, l.column))
         : l1 \in {advanceDigits(l)}})

\* The escape switch of readChar: the character an escape stands for.
CharEscape(r) ==
    CASE r = Ord["n"] -> [ok |-> TRUE, value |-> Ord["\n"]]
      [] r = Ord["t"] -> [ok |-> TRUE, value |-> Ord["\t"]]
      [] r = Ord["r"] -> [ok |-> TRUE, value |-> Ord["\r"]]
      [] r = Ord["'"] -> [ok |-> TRUE, value |-> Ord["'"]]
      [] r = Ord["\\"] -> [ok |-> TRUE, value |-> Ord["\\"]]
      [] OTHER -> [ok |-> FALSE, value |-> 0]

\* The escape switch of readString.
StringEscape(r) ==
    CASE r = Ord["n"] -> [ok |-> TRUE, value |-> Ord["\n"]]
      [] r = Ord["t"] -> [ok |-> TRUE, value |-> Ord["\t"]]
      [] r = Ord["r"] -> [ok |-> TRUE, value |-> Ord["\r"]]
      [] r = Ord["\""] -> [ok |-> TRUE, value |-> Ord["\""]]
      [] r = Ord["\\"] -> [ok |-> TRUE, value |-> Ord["\\"]]
      [] OTHER -> [ok |-> FALSE, value |-> 0]

\* The escape branch of readChar; l has advanced past the backslash.
readCharEscape(l) ==
    The({IF esc.ok THEN [l |-> advance(l), value |-> <<esc.value>>, ok |-> TRUE]
         ELSE [l |-> l, value |-> <<>>, ok |-> FALSE] : esc \in {CharEscape(l.currentChar)}})

\* The character of readChar; l has advanced past the opening quote.
readCharValue(l) ==
    IF l.currentChar = Ord["\\"] THEN readCharEscape(advance(l))
    ELSE [l |-> advance(l), value |-> <<l.currentChar>>, ok |-> TRUE]

\* Lexer.readChar
readChar(l) ==
    The({IF ~body.ok
         THEN Panicked(body.l, Panic("invalid escape", body.l.currentChar,
                                     body.l.line, body.l.column))
         ELSE IF body.l.currentChar # Ord["'"]
         THEN Panicked(body.l, Panic("unclosed char", 0, l.line, l.column))
         ELSE Returned(advance(body.l), Token("CharConst", body.value, l.line, l.column))
         : body \in {readCharValue(advance(l))}})

\* The loop of readString: the lexer and the value read when it ends.
RECURSIVE readStringLoop(_, _)
readStringLoop(l, value) ==
    IF l.currentChar # Ord["\""] /\ l.currentChar # 0
    THEN IF l.currentChar = Ord["\\"]
         THEN The({IF StringEscape(l1.currentChar).ok
                   THEN readStringLoop(advance(l1),
                                       Append(value, StringEscape(l1.currentChar).value))
                   ELSE [l |-> l1, value |-> value, ok |-> FALSE]
                   : l1 \in {advance(l)}})
         ELSE readStringLoop(advance(l), Append(value, l.currentChar))
    ELSE [l |-> l, value |-> value, ok |-> TRUE]

\* Lexer.readString
readString(l) ==
    The({IF ~body.ok
         THEN Panicked(body.l, Panic("invalid escape", body.l.currentChar,
                                     body.l.line, body.l.column))
         ELSE IF body.l.currentChar # Ord["\""]
         THEN Panicked(body.l, Panic("unclosed string", 0, l.line, l.column))
         ELSE Returned(advance(body.l), Token("STRING", body.value, l.line, l.column))
         : body \in {readStringLoop(advance(l), <<>>)}})

\* A two-character case that returns its token without the second advance.
OperatorWithEqualUnconsumed(l, type2, text2, type1, text1, currentLine, currentCol) ==
    IF l.currentChar = Ord["="]
    THEN Returned(l, Token(type2, Str(text2), currentLine, currentCol))
    ELSE Returned(l, Token(type1, Str(text1), currentLine, currentCol))

\* The cases '=', '!', '<' and '>' of the operator switch: one character of
\* lookahead decides between the two-character and the one-character token.
OperatorWithEqual(l, type2, text2, type1, text1, currentLine, currentCol) ==
    IF l.currentChar = Ord["="]
    THEN Returned(advance(l), Token(type2, Str(text2), currentLine, currentCol))
    ELSE Returned(l, Token(type1, Str(text1), currentLine, currentCol))

\* The operator switch of NextToken: l has advanced past currentChar.
OperatorToken(l, currentChar, currentLine, currentCol) ==
    LET two(type2, text2, type1, text1) ==
            OperatorWithEqual(l, type2, text2, type1, text1, currentLine, currentCol)
        one(type, text) == Returned(l, Token(type, Str(text), currentLine, currentCol))
    IN  CASE currentChar = Ord["="] -> two("EQUAL", <<"=", "=">>, "ASSIGN", <<"=">>)
          [] currentChar = Ord["!"] -> two("NOTEQ", <<"!", "=">>, "NOT", <<"!">>)
          [] currentChar = Ord["<"] -> two("LessEqual", <<"<", "=">>, "LESS", <<"<">>)
          [] currentChar = Ord[">"] -> two("GreatEqual", <<">", "=">>, "GREAT", <<">">>)
          [] currentChar = Ord["+"] -> one("PLUS", <<"+">>)
          [] currentChar = Ord["-"] -> one("MINUS", <<"-">>)
          [] currentChar = Ord["*"] -> one("MULTIPLY", <<"*">>)
          [] currentChar = Ord["/"] -> one("DIVIDE", <<"/">>)
          [] currentChar = Ord[";"] -> one("SEMICOLON", <<";">>)
          [] currentChar = Ord[","] -> one("COMMA", <<",">>)
          [] currentChar = Ord["("] -> one("LeftParen", <<"(">>)
          [] currentChar = Ord[")"] -> one("RightParen", <<")">>)
          [] currentChar = Ord["{"] -> one("LeftBrace", <<"{">>)
          [] currentChar = Ord["}"] -> one("RightBrace", <<"}">>)
          [] currentChar = Ord["["] -> one("LeftBrack", <<"[">>)
          [] currentChar = Ord["]"] -> one("RightBrack", <<"]">>)
          [] currentChar = Ord[":"] -> one("COLON", <<":">>)
          [] OTHER -> Panicked(l, Panic("unexpected character", currentChar,
                                        currentLine, currentCol))

\* An end of input that moves the lexer on as the other returns do.
EndOfInputAdvancing(l) == Returned(advance(l), Token("EOF", <<>>, l.line, l.column))

\* return Token{EOF, "", l.line, l.column}
EndOfInput(l) == Returned(l, Token("EOF", <<>>, l.line, l.column))

\* Lexer.NextToken
RECURSIVE NextToken(_)
NextToken(l) ==
    IF l.currentChar # 0
    THEN CASE IsSpace(l.currentChar) -> NextToken(skipWhitespace(l))
           [] l.currentChar = Ord["'"] -> readChar(l)
           [] l.currentChar = Ord["\""] -> readString(l)
           [] IsLetter(l.currentChar) -> readIdentifier(l)
           [] IsDigit(l.currentChar) -> readNumber(l)
           [] OTHER -> OperatorToken(advance(l), l.currentChar, l.line, l.column)
    ELSE EndOfInput(l)

--------------------------------------------------------------------------
(* int64 and uint64: four 16-bit limbs, least significant first *)

Limb == 2^16

Zero64 == <<0, 0, 0, 0>>

MaxInt64 == <<65535, 65535, 65535, 32767>>

MinInt64 == <<0, 0, 0, 32768>>

\* int64(n) for an n the model checker can hold (-2^31 < n < 2^31).
I64(n) ==
    IF n >= 0
    THEN <<n % Limb, n \div Limb, 0, 0>>
    ELSE <<n % Limb, (n \div Limb) % Limb, 65535, 65535>>

IsNeg64(a) == a[4] >= 32768

\* a + b + carry over 64 bits, the carry out dropped: the wraparound of
\* the addition of int64.
AddCarry64(a, b, carry) ==
    LET t1 == a[1] + b[1] + carry
        t2 == a[2] + b[2] + t1 \div Limb
        t3 == a[3] + b[3] + t2 \div Limb
        t4 == a[4] + b[4] + t3 \div Limb
    IN  <<t1 % Limb, t2 % Limb, t3 % Limb, t4 % Limb>>

Not64(a) == <<65535 - a[1], 65535 - a[2], 65535 - a[3], 65535 - a[4]>>

\* left + right and left - right of int64.
Add64(a, b) == AddCarry64(a, b, 0)

Sub64(a, b) == AddCarry64(a, Not64(b), 1)

Neg64(a) == Sub64(Zero64, a)

\* n*base + d over uint64; overflow when the result needs more than 64 bits.
MulAdd64(n, base, d) ==
    LET t1 == n[1] * base + d
        t2 == n[2] * base + t1 \div Limb
        t3 == n[3] * base + t2 \div Limb
        t4 == n[4] * base + t3 \div Limb
    IN  [value |-> <<t1 % Limb, t2 % Limb, t3 % Limb, t4 % Limb>>,
         overflow |-> t4 \div Limb > 0]

--------------------------------------------------------------------------
(* strconv.ParseInt(s, 0, 64) *)

\* lower(c) of package strconv: c | ('x' - 'X').
lower(ch) == IF (ch \div 32) % 2 = 1 THEN ch ELSE ch + 32

IsHexLetter(ch) == lower(ch) \in Ord["a"]..Ord["f"]

\* strconv.underscoreOK: underscores only between digits (a base prefix
\* counts as a digit).  last is "^" at the start, "0" after a digit, "_"
\* after an underscore, "!" after anything else.
RECURSIVE underscoreScan(_, _, _, _)
underscoreScan(s, i, hex, last) ==
    IF i > Len(s) THEN last # "_"
    ELSE IF IsDigit(s[i]) \/ (hex /\ IsHexLetter(s[i]))
    THEN underscoreScan(s, i + 1, hex, "0")
    ELSE IF s[i] = Ord["_"]
    THEN last = "0" /\ underscoreScan(s, i + 1, hex, "_")
    ELSE last # "_" /\ underscoreScan(s, i + 1, hex, "!")

underscoreOK(s0) ==
    LET s == IF Len(s0) >= 1 /\ s0[1] \in {Ord["-"], Ord["+"]} THEN Tail(s0) ELSE s0
        prefixed == /\ Len(s) >= 2
                    /\ s[1] = Ord["0"]
                    /\ lower(s[2]) \in {Ord["b"], Ord["o"], Ord["x"]}
    IN  IF prefixed
        THEN underscoreScan(s, 3, lower(s[2]) = Ord["x"], "0")
        ELSE underscoreScan(s, 1, FALSE, "^")

\* The digit loop of strconv.ParseUint, base 0: "ok" with the value,
\* "syntax" or "range".
RECURSIVE ParseUintLoop(_, _, _, _, _)
ParseUintLoop(s, i, base, n, underscores) ==
    IF i > Len(s)
    THEN [err |-> "ok", value |-> n, underscores |-> underscores]
    ELSE IF s[i] = Ord["_"]
    THEN ParseUintLoop(s, i + 1, base, n, TRUE)
    ELSE LET ch == s[i]
             isNum == IsDigit(ch)
             isAlpha == lower(ch) \in Ord["a"]..Ord["z"]
             d == IF isNum THEN ch - Ord["0"] ELSE lower(ch) - Ord["a"] + 10
             m == MulAdd64(n, base, d)
         IN  IF ~(isNum \/ isAlpha) THEN [err |-> "syntax", value |-> Zero64, underscores |-> underscores]
             ELSE IF d >= base THEN [err |-> "syntax", value |-> Zero64, underscores |-> underscores]
             ELSE IF m.overflow THEN [err |-> "range", value |-> Not64(Zero64), underscores |-> underscores]
             ELSE ParseUintLoop(s, i + 1, base, m.value, underscores)

\* strconv.ParseUint(s, 0, 64)
ParseUint(s) ==
    IF s = <<>> THEN [err |-> "syntax", value |-> Zero64]
    ELSE LET prefix(b) == Len(s) >= 3 /\ lower(s[2]) = Ord[b]
             base == IF s[1] # Ord["0"] THEN 10
                     ELSE IF prefix("b") THEN 2
                     ELSE IF prefix("o") THEN 8
                     ELSE IF prefix("x") THEN 16
                     ELSE 8
             from == IF s[1] # Ord["0"] THEN 1
                     ELSE IF prefix("b") \/ prefix("o") \/ prefix("x") THEN 3
                     ELSE 2
             r == ParseUintLoop(s, from, base, Zero64, FALSE)
         IN  IF r.err # "ok" THEN [err |-> r.err, value |-> r.value]
             ELSE IF r.underscores /\ ~underscoreOK(s)
             THEN [err |-> "syntax", value |-> Zero64]
             ELSE [err |-> "ok", value |-> r.value]

\* value, err := strconv.ParseInt(s, 0, 64): ok is err == nil.
ParseInt(s) ==
    IF s = <<>> THEN [ok |-> FALSE, value |-> Zero64]
    ELSE LET neg == s[1] = Ord["-"]
             body == IF s[1] \in {Ord["+"], Ord["-"]} THEN Tail(s) ELSE s
             u == ParseUint(body)
         IN  IF u.err = "syntax" THEN [ok |-> FALSE, value |-> Zero64]
             ELSE IF ~neg /\ (u.err = "range" \/ IsNeg64(u.value))
             THEN [ok |-> FALSE, value |-> MaxInt64]
             ELSE IF neg /\ (u.err = "range" \/ (IsNeg64(u.value) /\ u.value # MinInt64))
             THEN [ok |-> FALSE, value |-> MinInt64]
             ELSE [ok |-> TRUE, value |-> IF neg THEN Neg64(u.value) ELSE u.value]

--------------------------------------------------------------------------
(* Parser *)

\* An interface value that holds nothing.
Nil == [kind |-> "nil"]

IntegerLiteral(token, value) ==
    [kind |-> "IntegerLiteral", Token |-> token, Value |-> value]

InfixExpression(token, operator, left, right) ==
    [kind |-> "InfixExpression", Token |-> token, Operator |-> operator,
     Left |-> left, Right |-> right]

Program(expression) == [kind |-> "Program", Expression |-> expression]

\* A parser with its lexer, as the parser's methods see them; panic is
\* the lexer's panic that unwinds through them.
\* Parser.nextToken
nextToken(ps) ==
    The({IF r.panic # NoPanic
         THEN [ps EXCEPT !.l = r.l, !.curToken = ps.peekToken, !.panic = r.panic]
         ELSE [ps EXCEPT !.l = r.l, !.curToken = ps.peekToken, !.peekToken = r.tok]
         : r \in {NextToken(ps.l)}})

\* parser.New
\* A call of nextToken that a panic in an earlier call never reaches.
thenNextToken(ps) == IF ps.panic # NoPanic THEN ps ELSE nextToken(ps)

NewParser(l) ==
    thenNextToken(nextToken([l |-> l, errors |-> <<>>, curToken |-> ZeroToken,
                             peekToken |-> ZeroToken, panic |-> NoPanic]))

\* fmt.Sprintf("could not parse %q as integer", p.curToken.Value)
CouldNotParse(value) == [msg |-> "could not parse as integer", value |-> value]

\* A parseIntegerLiteral that returns the node it made, its Value zero,
\* when the conversion fails.
parseIntegerLiteralKeepsNode(ps) ==
    The({IF ~r.ok
         THEN [ps |-> [ps EXCEPT !.errors = Append(@, CouldNotParse(ps.curToken.Value))],
               node |-> IntegerLiteral(ps.curToken, Zero64)]
         ELSE [ps |-> ps, node |-> IntegerLiteral(ps.curToken, r.value)]
         : r \in {ParseInt(ps.curToken.Value)}})

\* Parser.parseIntegerLiteral
parseIntegerLiteral(ps) ==
    The({IF ~r.ok
         THEN [ps |-> [ps EXCEPT !.errors = Append(@, CouldNotParse(ps.curToken.Value))],
               node |-> Nil]
         ELSE [ps |-> ps, node |-> IntegerLiteral(ps.curToken, r.value)]
         : r \in {ParseInt(ps.curToken.Value)}})

\* An end of parseInfixExpression that takes the operands the other way
\* round.
parseInfixRightSwapped(ps, ps1, left) ==
    IF ps1.panic # NoPanic
    THEN [ps |-> ps1, node |-> Nil]
    ELSE The({[ps |-> right.ps,
               node |-> InfixExpression(ps.curToken, ps.curToken.Value, right.node, left)]
              : right \in {parseIntegerLiteral(ps1)}})

\* Parser.parseInfixExpression
\* The end of parseInfixExpression; ps1 is the parser after nextToken.
parseInfixRight(ps, ps1, left) ==
    IF ps1.panic # NoPanic
    THEN [ps |-> ps1, node |-> Nil]
    ELSE The({[ps |-> right.ps,
               node |-> InfixExpression(ps.curToken, ps.curToken.Value, left, right.node)]
              : right \in {parseIntegerLiteral(ps1)}})

parseInfixExpression(ps, left) ==
    The({parseInfixRight(ps, ps1, left) : ps1 \in {nextToken(ps)}})

\* A loop of parseExpression that goes on until the end of the input,
\* whatever token comes next.
RECURSIVE parseExpressionLoopToEnd(_, _)
parseExpressionLoopToEnd(ps, left) ==
    IF ps.peekToken.Type # "EOF"
    THEN The({IF ps1.panic # NoPanic THEN [ps |-> ps1, node |-> Nil]
              ELSE The({IF r.ps.panic # NoPanic THEN r
                        ELSE parseExpressionLoopToEnd(r.ps, r.node)
                        : r \in {parseInfixExpression(ps1, left)}})
              : ps1 \in {nextToken(ps)}})
    ELSE [ps |-> ps, node |-> left]

\* The loop of parseExpression.
RECURSIVE parseExpressionLoop(_, _)
parseExpressionLoop(ps, left) ==
    IF ps.peekToken.Type = "PLUS" \/ ps.peekToken.Type = "MINUS"
    THEN The({IF ps1.panic # NoPanic THEN [ps |-> ps1, node |-> Nil]
              ELSE The({IF r.ps.panic # NoPanic THEN r
                        ELSE parseExpressionLoop(r.ps, r.node)
                        : r \in {parseInfixExpression(ps1, left)}})
              : ps1 \in {nextToken(ps)}})
    ELSE [ps |-> ps, node |-> left]

\* Parser.parseExpression
parseExpression(ps) ==
    The({parseExpressionLoop(r.ps, r.node) : r \in {parseIntegerLiteral(ps)}})

\* Parser.ParseProgram
ParseProgram(ps) ==
    The({[ps |-> r.ps, node |-> Program(r.node)] : r \in {parseExpression(ps)}})

--------------------------------------------------------------------------
(* Compiler *)

OpConstant == 0

OpAdd == 1

OpSub == 2

\* An int64 held in an interface{}.
Int64Value(v) == [kind |-> "int64", v |-> v]

\* byte(x) of a non-negative int.
byte(x) == x % 256

\* The Compiler.  A compiler that has compiled a long chain
\* l1 + l2 + ... + ln of literals of value 1 is held with the n constants
\* and the 4n - 1 instruction bytes of that chain counted in chain, not
\* written out: its constants are ChainPool(chain) \o constants and its
\* instructions ChainCode(chain) \o instructions.  chain is 0 unless a
\* specification starts inside such a chain.

\* The constants of the chain: n times the value 1.
ChainValue == Int64Value(I64(1))

ChainPool(n) == [i \in 1..n |-> ChainValue]

\* The instructions of the chain: the load of l1, then for each further
\* literal its load and an OpAdd.
ChainCode(n) ==
    [i \in 1..(4 * n - 1) |->
        IF i = 1 THEN OpConstant
        ELSE IF i <= 3 THEN 0
        ELSE LET k == 1 + (i - 4) \div 4
                 r == (i - 4) % 4
             IN  CASE r = 0 -> OpConstant
                   [] r = 1 -> byte(k \div 256)
                   [] r = 2 -> byte(k)
                   [] r = 3 -> OpAdd]

\* len(c.constants) and c.constants[i]
ConstantsLen(cs) == cs.chain + Len(cs.constants)

ConstantAt(cs, i) ==
    IF i < cs.chain THEN ChainValue ELSE cs.constants[i - cs.chain + 1]

\* compiler.New
NewCompiler == [chain |-> 0, instructions |-> <<>>, constants |-> <<>>]

\* Compiler.emit
emit(cs, op, operands) ==
    LET ins == <<byte(op)>> \o
               [i \in 1..(2 * Len(operands)) |->
                   IF i % 2 = 1 THEN byte(operands[(i + 1) \div 2] \div 256)
                   ELSE byte(operands[i \div 2])]
    IN  [cs EXCEPT !.instructions = @ \o ins]

\* A Compile that walks the right operand of an infix node before the left.
RECURSIVE CompileRightFirst(_, _)
CompileRightFirst(cs, node) ==
    CASE node.kind = "Program" ->
            CompileRightFirst(cs, node.Expression)
      [] node.kind = "InfixExpression" ->
            LET r == CompileRightFirst(cs, node.Right)
                l == CompileRightFirst(r.c, node.Left)
            IN  IF r.err # Nil THEN r
                ELSE IF l.err # Nil THEN l
                ELSE IF node.Operator = Str(<<"+">>) THEN [c |-> emit(l.c, OpAdd, <<>>), err |-> Nil]
                ELSE IF node.Operator = Str(<<"-">>) THEN [c |-> emit(l.c, OpSub, <<>>), err |-> Nil]
                ELSE [c |-> l.c, err |-> Nil]
      [] node.kind = "IntegerLiteral" ->
            LET c1 == [cs EXCEPT !.constants = Append(@, Int64Value(node.Value))]
            IN  [c |-> emit(c1, OpConstant, <<ConstantsLen(c1) - 1>>), err |-> Nil]
      [] OTHER -> [c |-> cs, err |-> Nil]

\* A Compile that returns an error for a node or an operator it does not
\* know.
RECURSIVE CompileStrict(_, _)
CompileStrict(cs, node) ==
    CASE node.kind = "Program" ->
            CompileStrict(cs, node.Expression)
      [] node.kind = "InfixExpression" ->
            LET l == CompileStrict(cs, node.Left)
                r == CompileStrict(l.c, node.Right)
            IN  IF l.err # Nil THEN l
                ELSE IF r.err # Nil THEN r
                ELSE IF node.Operator = Str(<<"+">>) THEN [c |-> emit(r.c, OpAdd, <<>>), err |-> Nil]
                ELSE IF node.Operator = Str(<<"-">>) THEN [c |-> emit(r.c, OpSub, <<>>), err |-> Nil]
                ELSE [c |-> r.c, err |-> [kind |-> "error", msg |-> "unknown operator"]]
      [] node.kind = "IntegerLiteral" ->
            LET c1 == [cs EXCEPT !.constants = Append(@, Int64Value(node.Value))]
            IN  [c |-> emit(c1, OpConstant, <<ConstantsLen(c1) - 1>>), err |-> Nil]
      [] OTHER -> [c |-> cs, err |-> [kind |-> "error", msg |-> "unknown node"]]

\* A Compile that emits the opcode of an infix node between its operands.
RECURSIVE CompileInOrder(_, _)
CompileInOrder(cs, node) ==
    CASE node.kind = "Program" ->
            CompileInOrder(cs, node.Expression)
      [] node.kind = "InfixExpression" ->
            LET l == CompileInOrder(cs, node.Left)
                o == IF node.Operator = Str(<<"+">>) THEN emit(l.c, OpAdd, <<>>)
                     ELSE IF node.Operator = Str(<<"-">>) THEN emit(l.c, OpSub, <<>>)
                     ELSE l.c
                r == CompileInOrder(o, node.Right)
            IN  IF l.err # Nil THEN l ELSE r
      [] node.kind = "IntegerLiteral" ->
            LET c1 == [cs EXCEPT !.constants = Append(@, Int64Value(node.Value))]
            IN  [c |-> emit(c1, OpConstant, <<ConstantsLen(c1) - 1>>), err |-> Nil]
      [] OTHER -> [c |-> cs, err |-> Nil]

\* Compiler.Compile: the compiler it leaves and the error it returns.
RECURSIVE Compile(_, _)
Compile(cs, node) ==
    CASE node.kind = "Program" ->
            Compile(cs, node.Expression)
      [] node.kind = "InfixExpression" ->
            LET l == Compile(cs, node.Left)
                r == Compile(l.c, node.Right)
            IN  IF l.err # Nil THEN l
                ELSE IF r.err # Nil THEN r
                ELSE IF node.Operator = Str(<<"+">>) THEN [c |-> emit(r.c, OpAdd, <<>>), err |-> Nil]
                ELSE IF node.Operator = Str(<<"-">>) THEN [c |-> emit(r.c, OpSub, <<>>), err |-> Nil]
                ELSE [c |-> r.c, err |-> Nil]
      [] node.kind = "IntegerLiteral" ->
            LET c1 == [cs EXCEPT !.constants = Append(@, Int64Value(node.Value))]
            IN  [c |-> emit(c1, OpConstant, <<ConstantsLen(c1) - 1>>), err |-> Nil]
      [] OTHER -> [c |-> cs, err |-> Nil]

\* Compiler.Bytecode
Bytecode(cs) ==
    [Instructions |-> ChainCode(cs.chain) \o cs.instructions,
     Constants |-> ChainPool(cs.chain) \o cs.constants]

--------------------------------------------------------------------------
(* VM *)

StackSize == 2048

\* fmt.Errorf("stack overflow")
StackOverflow == [kind |-> "error", msg |-> "stack overflow"]

\* vm.New.  stack lists the slots written so far, slot 0 first: a slot is
\* written only at index sp, so the written slots are a prefix of the
\* StackSize slots make allocated, and every slot after them holds nil.
NewVM(bytecode) == [bytecode |-> bytecode, stack |-> <<>>, sp |-> 0]

\* vm.stack[i]
Slot(v, i) == IF i < Len(v.stack) THEN v.stack[i + 1] ELSE Nil

\* vm.stack[i] = o
SetSlot(stack, i, o) ==
    IF i < Len(stack) THEN [stack EXCEPT ![i + 1] = o]
    ELSE stack \o [k \in 1..(i - Len(stack)) |-> Nil] \o <<o>>

\* A pop that moves sp whether or not the stack is empty.
popUnguarded(v) ==
    IF v.sp = 0 THEN [vm |-> [v EXCEPT !.sp = @ - 1], value |-> Nil]
    ELSE [vm |-> [v EXCEPT !.sp = @ - 1], value |-> Slot(v, v.sp - 1)]

\* VM.pop: the VM it leaves and the value it returns.
pop(v) ==
    IF v.sp = 0 THEN [vm |-> v, value |-> Nil]
    ELSE [vm |-> [v EXCEPT !.sp = @ - 1], value |-> Slot(v, v.sp - 1)]

\* A push that lets sp reach StackSize + 1 before it reports the overflow.
pushAbove(v, o) ==
    IF v.sp > StackSize THEN [vm |-> v, err |-> StackOverflow]
    ELSE [vm |-> [v EXCEPT !.stack = SetSlot(@, v.sp, o), !.sp = @ + 1], err |-> Nil]

\* VM.push: the VM it leaves and the error it returns.
push(v, o) ==
    IF v.sp >= StackSize THEN [vm |-> v, err |-> StackOverflow]
    ELSE [vm |-> [v EXCEPT !.stack = SetSlot(@, v.sp, o), !.sp = @ + 1], err |-> Nil]

\* A StackTop that reads the slot at sp, one above the top.
StackTopAbove(v) == IF v.sp = 0 THEN Nil ELSE Slot(v, v.sp)

\* VM.StackTop
StackTop(v) == IF v.sp = 0 THEN Nil ELSE Slot(v, v.sp - 1)

\* A run-time panic of the Go runtime: an index out of range, a failed
\* type assertion.
RuntimePanic(what) == Panic(what, 0, 0, 0)

\* What one iteration of the loop of VM.Run leaves: the VM, the instruction
\* pointer, whether Run returned and with which error, or the panic.
Iterated(v, i) == [vm |-> v, ip |-> i, returned |-> FALSE, err |-> Nil, panic |-> NoPanic]

Pushed(r, i) ==
    [vm |-> r.vm, ip |-> i, returned |-> r.err # Nil, err |-> r.err, panic |-> NoPanic]

RunPanicked(v, i, what) ==
    [vm |-> v, ip |-> i, returned |-> FALSE, err |-> Nil, panic |-> RuntimePanic(what)]

\* constIndex := int(ins[ip])<<8 | int(ins[ip+1])
ReadUint16(ins, i) == ins[i + 1] * 256 + ins[i + 2]

\* An OpConstant case that steps over one operand byte only.
RunConstantNarrow(v, i) ==
    LET ins == v.bytecode.Instructions
        constIndex == ReadUint16(ins, i)
    IN  IF i + 1 >= Len(ins) THEN RunPanicked(v, i, "index out of range")
        ELSE IF constIndex >= Len(v.bytecode.Constants)
        THEN RunPanicked(v, i + 1, "index out of range")
        ELSE Pushed(push(v, v.bytecode.Constants[constIndex + 1]), i + 1)

\* The OpConstant case of VM.Run; i is ip after the opcode.
RunConstant(v, i) ==
    LET ins == v.bytecode.Instructions
        constIndex == ReadUint16(ins, i)
    IN  IF i + 1 >= Len(ins) THEN RunPanicked(v, i, "index out of range")
        ELSE IF constIndex >= Len(v.bytecode.Constants)
        THEN RunPanicked(v, i + 2, "index out of range")
        ELSE Pushed(push(v, v.bytecode.Constants[constIndex + 1]), i + 2)

\* An OpAdd, OpSub case that takes the first value popped as the left
\* operand.
RunArithLeftFirst(v, i, op) ==
    LET left == pop(v)
        right == pop(left.vm)
        result == IF op = OpAdd THEN Add64(left.value.v, right.value.v)
                  ELSE Sub64(left.value.v, right.value.v)
    IN  IF left.value.kind # "int64" THEN RunPanicked(left.vm, i, "type assertion")
        ELSE IF right.value.kind # "int64" THEN RunPanicked(right.vm, i, "type assertion")
        ELSE Pushed(push(right.vm, Int64Value(result)), i)

\* The OpAdd, OpSub case of VM.Run; i is ip after the opcode.
RunArith(v, i, op) ==
    LET right == pop(v)
        left == pop(right.vm)
        result == IF op = OpAdd THEN Add64(left.value.v, right.value.v)
                  ELSE Sub64(left.value.v, right.value.v)
    IN  IF right.value.kind # "int64" THEN RunPanicked(right.vm, i, "type assertion")
        ELSE IF left.value.kind # "int64" THEN RunPanicked(left.vm, i, "type assertion")
        ELSE Pushed(push(left.vm, Int64Value(result)), i)

\* One iteration of the loop of VM.Run, entered with ip < len(instructions).
RunIteration(v, i) ==
    LET op == v.bytecode.Instructions[i + 1]
    IN  CASE op = OpConstant -> RunConstant(v, i + 1)
          [] op = OpAdd \/ op = OpSub -> RunArith(v, i + 1, op)
          [] OTHER -> Iterated(v, i + 1)

--------------------------------------------------------------------------
(* Instructions.String *)

\* fmt.Sprintf("%d", n) of an n >= 0: its decimal digits.
RECURSIVE FormatInt(_)
FormatInt(n) ==
    IF n < 10 THEN <<Ord["0"] + n>>
    ELSE FormatInt(n \div 10) \o <<Ord["0"] + (n % 10)>>

\* What one iteration of the loop of String leaves of [ins, i, out], or
\* the panic of an index out of range.
StringPanicked(st) == [st |-> st, panic |-> RuntimePanic("index out of range")]

StringIterated(st, text, width) ==
    [st |-> [st EXCEPT !.out = @ \o text, !.i = @ + width], panic |-> NoPanic]

\* One iteration of the loop of Instructions.String, entered with
\* i < len(ins).  The switch has no default: another byte than the three
\* opcodes leaves out and i as they are.
StringIteration(st) ==
    LET op == st.ins[st.i + 1]
    IN  CASE op = OpConstant ->
                IF st.i + 2 >= Len(st.ins) THEN StringPanicked(st)
                ELSE StringIterated(st,
                         Str(<<"O", "p", "C", "o", "n", "s", "t", "a", "n", "t", " ">>)
                         \o FormatInt(ReadUint16(st.ins, st.i + 1)) \o Str(<<"\n">>), 3)
          [] op = OpAdd -> StringIterated(st, Str(<<"O", "p", "A", "d", "d", "\n">>), 1)
          [] op = OpSub -> StringIterated(st, Str(<<"O", "p", "S", "u", "b", "\n">>), 1)
          [] OTHER -> StringIterated(st, <<>>, 0)

--------------------------------------------------------------------------
(* Values the components have before they are constructed *)

NoResult == [kind |-> "none"]

\* str while Instructions.String has not been called.
NoString == [ins |-> <<>>, i |-> 0, out |-> <<>>, n |-> 0]

\* ret before the holder has made a call of its own.
NoCall == [op |-> "none", value |-> NoResult]

NoLexer == NewLexer(<<>>)

NoParser == [errors |-> <<>>, curToken |-> ZeroToken, peekToken |-> ZeroToken]

NoProgram == Nil

NoCompiler == NewCompiler

NoVM == [bytecode |-> Bytecode(NoCompiler), stack |-> <<>>, sp |-> 0]

NoGiven == [kind |-> "text"]

\* All sequences over S of length at most n.
SeqsUpTo(S, n) == UNION {[1..k -> S] : k \in 0..n}

--------------------------------------------------------------------------
(* The lexer driven as TestLexer drives it: NextToken, call after call *)

MaxSrcLen == 4

\* The bytes sources are written in: the NUL byte, a control character,
\* whitespace, a quote, a letter, a digit, operators and characters no rule
\* of NextToken matches.
LexAlphabet ==
    {0, 1} \cup {Ord[ch] : ch \in {" ", "\n", "\"", "a", "1", "+", "=", "@", "#"}}

\* l := lexer.New(input), nothing else constructed.
LexerStarts(input) ==
    /\ lx = NewLexer(input)
    /\ tok = NoToken
    /\ fatal = NoPanic
    /\ p = NoParser
    /\ program = NoProgram
    /\ c = NoCompiler
    /\ vm = NoVM
    /\ ip = 0
    /\ runErr = NoResult
    /\ top = NoResult
    /\ pc = "lex"
    /\ given = NoGiven
    /\ calls = 0
    /\ ret = NoCall
    /\ str = NoString

InitLex == \E input \in SeqsUpTo(LexAlphabet, MaxSrcLen) : LexerStarts(input)

\* token := l.NextToken()
NextTokenCall ==
    /\ pc = "lex"
    /\ fatal = NoPanic
    /\ \E r \in {NextToken(lx)} :
           /\ lx' = r.l
           /\ tok' = r.tok
           /\ fatal' = r.panic
    /\ UNCHANGED <<p, program, c, vm, ip, runErr, top, pc, given, calls, ret, str>>

NextLex == NextTokenCall

SpecLex == InitLex /\ [][NextLex]_vars

\* The same sources, the calls of NextToken counted: the parser, for one,
\* calls on after the end of input.
MaxTokenCalls == 6

NextTokenCounted ==
    /\ pc = "lex"
    /\ fatal = NoPanic
    /\ calls < MaxTokenCalls
    /\ calls' = calls + 1
    /\ \E r \in {NextToken(lx)} :
           /\ lx' = r.l
           /\ tok' = r.tok
           /\ fatal' = r.panic
    /\ UNCHANGED <<p, program, c, vm, ip, runErr, top, pc, given, ret, str>>

NextLexCalls == NextTokenCounted

SpecLexCalls == InitLex /\ [][NextLexCalls]_vars

\* Sources of character and string literals.
MaxLitLen == 4

LitAlphabet == {Ord[ch] : ch \in {"'", "\"", "\\", "n", "t", "r", "a"}}

InitLexLit == \E input \in SeqsUpTo(LitAlphabet, MaxLitLen) : LexerStarts(input)

SpecLexLit == InitLexLit /\ [][NextLex]_vars

\* Sources of one- and two-character operators.
MaxOpsLen == 4

OpsAlphabet == {Ord[ch] : ch \in {"=", "!", "<", ">", " ", "a"}}

InitLexOps == \E input \in SeqsUpTo(OpsAlphabet, MaxOpsLen) : LexerStarts(input)

SpecLexOps == InitLexOps /\ [][NextLex]_vars

\* Sources of words: each reserved word, as it stands, with its last
\* letter missing, and with a letter or a digit added, after optional
\* whitespace and before a tail.
MaxTailLen == 2

ReservedWords == {reverseKeywords[i].word : i \in 1..Len(reverseKeywords)}

Words ==
    ReservedWords
    \cup {SubSeq(w, 1, Len(w) - 1) : w \in ReservedWords}
    \cup {w \o Str(<<"x">>) : w \in ReservedWords}
    \cup {w \o Str(<<"1">>) : w \in ReservedWords}

WordLeads == {<<>>, Str(<<" ">>), Str(<<"\n">>)}

TailAlphabet == {Ord[ch] : ch \in {" ", "+", "f", "1"}}

InitLexWords ==
    \E lead \in WordLeads, w \in Words, tail \in SeqsUpTo(TailAlphabet, MaxTailLen) :
        LexerStarts(lead \o w \o tail)

SpecLexWords == InitLexWords /\ [][NextLex]_vars

--------------------------------------------------------------------------
(* The pipeline as main drives it *)

\* The parser's methods see the parser and its lexer together.
WithLexer(l, pr) ==
    [l |-> l, errors |-> pr.errors, curToken |-> pr.curToken,
     peekToken |-> pr.peekToken, panic |-> NoPanic]

ParserOf(ps) ==
    [errors |-> ps.errors, curToken |-> ps.curToken, peekToken |-> ps.peekToken]

\* p := parser.New(l)
ParserNewCall ==
    /\ pc = "new_parser"
    /\ fatal = NoPanic
    /\ \E ps \in {NewParser(lx)} :
           /\ lx' = ps.l
           /\ p' = ParserOf(ps)
           /\ fatal' = ps.panic
    /\ pc' = "parse"
    /\ UNCHANGED <<tok, program, c, vm, ip, runErr, top, given, calls, ret, str>>

\* program := p.ParseProgram()
ParseProgramCall ==
    /\ pc = "parse"
    /\ fatal = NoPanic
    /\ \E r \in {ParseProgram(WithLexer(lx, p))} :
           /\ lx' = r.ps.l
           /\ p' = ParserOf(r.ps)
           /\ fatal' = r.ps.panic
           /\ program' = IF r.ps.panic # NoPanic THEN program ELSE r.node
    /\ pc' = "parsed"
    /\ UNCHANGED <<tok, c, vm, ip, runErr, top, given, calls, ret, str>>

\* if len(p.Errors()) != 0 { ...; return }
ExitOnErrors ==
    /\ pc = "parsed"
    /\ fatal = NoPanic
    /\ Len(p.errors) # 0
    /\ pc' = "exit"
    /\ UNCHANGED <<lx, tok, fatal, p, program, c, vm, ip, runErr, top, given, calls, ret, str>>

\* c := compiler.New(); err = c.Compile(program)
CompileCall ==
    /\ pc = "parsed"
    /\ fatal = NoPanic
    /\ Len(p.errors) = 0
    /\ \E r \in {Compile(NewCompiler, program)} :
           /\ c' = r.c
           /\ pc' = IF r.err # Nil THEN "exit" ELSE "compiled"
    /\ UNCHANGED <<lx, tok, fatal, p, program, vm, ip, runErr, top, given, calls, ret, str>>

\* machine := vm.New(c.Bytecode())
VMNewCall ==
    /\ pc = "compiled"
    /\ vm' = NewVM(Bytecode(c))
    /\ pc' = "vm"
    /\ UNCHANGED <<lx, tok, fatal, p, program, c, ip, runErr, top, given, calls, ret, str>>

\* err = machine.Run(): ip := 0
RunCall ==
    /\ pc = "vm"
    /\ ip' = 0
    /\ runErr' = NoResult
    /\ pc' = "run"
    /\ UNCHANGED <<lx, tok, fatal, p, program, c, vm, top, given, calls, ret, str>>

\* One iteration of the loop of Run.
RunStep ==
    /\ pc = "run"
    /\ fatal = NoPanic
    /\ ip < Len(vm.bytecode.Instructions)
    /\ \E r \in {RunIteration(vm, ip)} :
           /\ vm' = r.vm
           /\ ip' = r.ip
           /\ fatal' = r.panic
           /\ runErr' = IF r.returned THEN r.err ELSE runErr
           /\ pc' = IF r.returned THEN "ran" ELSE pc
    /\ UNCHANGED <<lx, tok, p, program, c, top, given, calls, ret, str>>

\* The loop of Run ends: return nil.
RunReturn ==
    /\ pc = "run"
    /\ fatal = NoPanic
    /\ ip >= Len(vm.bytecode.Instructions)
    /\ runErr' = Nil
    /\ pc' = "ran"
    /\ UNCHANGED <<lx, tok, fatal, p, program, c, vm, ip, top, given, calls, ret, str>>

\* if err != nil { ...; return }
ExitOnRunError ==
    /\ pc = "ran"
    /\ runErr # Nil
    /\ pc' = "exit"
    /\ UNCHANGED <<lx, tok, fatal, p, program, c, vm, ip, runErr, top, given, calls, ret, str>>

\* result := machine.StackTop(): main's last step, Run having returned nil.
StackTopCall ==
    /\ pc = "ran"
    /\ runErr = Nil
    /\ top' = StackTop(vm)
    /\ pc' = "done"
    /\ UNCHANGED <<lx, tok, fatal, p, program, c, vm, ip, runErr, given, calls, ret, str>>

MaxChain == 3

MaxInt64Text ==
    Str(<<"9", "2", "2", "3", "3", "7", "2", "0", "3", "6", "8", "5", "4", "7", "7",
          "5", "8", "0", "7">>)

\* MaxInt64Text plus one.
TooBigText == [MaxInt64Text EXCEPT ![19] = Ord["8"]]

\* The integer literals sources are written with.
PipeLiterals ==
    {Str(<<"7">>), Str(<<"1", "2">>), Str(<<"0", "1", "0">>), Str(<<"0", "8">>),
     MaxInt64Text, TooBigText}

PipeOperators == {Ord["+"], Ord["-"]}

\* The whitespace written between the tokens of a source.
PipeSpaces == {<<>>, Str(<<" ">>), Str(<<"\n", " ">>)}

\* A chain n0 op1 n1 ... opk nk.
Chains ==
    UNION {[kind : {"chain"}, lits : [1..k -> PipeLiterals],
            ops : [1..(k - 1) -> PipeOperators], ws : PipeSpaces] : k \in 1..MaxChain}

\* The source text of a chain.
RECURSIVE ChainText(_, _)
ChainText(g, k) ==
    IF k = 1 THEN g.lits[1]
    ELSE ChainText(g, k - 1) \o g.ws \o <<g.ops[k - 1]>> \o g.ws \o g.lits[k]

\* main has read the source and made its lexer.
MainStarts(input, g) ==
    /\ lx = NewLexer(input)
    /\ tok = NoToken
    /\ fatal = NoPanic
    /\ p = NoParser
    /\ program = NoProgram
    /\ c = NoCompiler
    /\ vm = NoVM
    /\ ip = 0
    /\ runErr = NoResult
    /\ top = NoResult
    /\ pc = "new_parser"
    /\ given = g
    /\ calls = 0
    /\ ret = NoCall
    /\ str = NoString

InitPipe == \E g \in Chains : MainStarts(ChainText(g, Len(g.lits)), g)

\* ExitOnRunError is no step of these runs: the bytecode of a chain never
\* holds more than two values on the stack, so that Run returns nil.
NextPipe ==
    \/ ParserNewCall
    \/ ParseProgramCall
    \/ ExitOnErrors
    \/ CompileCall
    \/ VMNewCall
    \/ RunCall
    \/ RunStep
    \/ RunReturn
    \/ StackTopCall

SpecPipe == InitPipe /\ [][NextPipe]_vars

--------------------------------------------------------------------------
(* main over a chain that other tokens follow.                            *)

\* The integer literals of these chains: two that convert and one that
\* does not fit in 64 bits.
TrailLiterals == {Str(<<"7">>), Str(<<"1", "2">>), TooBigText}

\* What follows the chain: the text up to the end of its first token, the
\* type and the value of that token, and the rest of the source.
Trail(first, type, value, rest) ==
    [first |-> Str(first), type |-> type, value |-> Str(value), rest |-> Str(rest)]

Trails ==
    {Trail(<<" ", "7">>, "NUMBER", <<"7">>, <<>>),
     Trail(<<";">>, "SEMICOLON", <<";">>, <<" ", "@">>),
     Trail(<<")">>, "RightParen", <<")">>, <<"+", "7">>),
     Trail(<<"*">>, "MULTIPLY", <<"*">>, <<"7">>),
     Trail(<<" ", "a">>, "IDENTIFIER", <<"a">>, <<"-", "7">>),
     Trail(<<"=", "=">>, "EQUAL", <<"=", "=">>, <<"1", "2">>)}

\* A chain and what follows it.
TrailedChains ==
    UNION {[kind : {"trailed"}, lits : [1..k -> TrailLiterals],
            ops : [1..(k - 1) -> PipeOperators], ws : PipeSpaces, trail : Trails]
           : k \in 1..MaxChain}

InitTrail ==
    \E g \in TrailedChains :
        MainStarts(ChainText(g, Len(g.lits)) \o g.trail.first \o g.trail.rest, g)

SpecTrail == InitTrail /\ [][NextPipe]_vars

\* Run is a sequential loop: once called it makes its next iteration, and
\* returns when the loop ends.
SpecPipeRun == SpecPipe /\ WF_vars(RunStep) /\ WF_vars(RunReturn)

--------------------------------------------------------------------------
(* The VM over any bytecode, driven by a holder that also calls push, pop, *)
(* StackTop and Run on its own                                             *)

MaxCodeLen == 4

MaxDirectCalls == 2

\* The bytes instructions are written with: the three opcodes, which are
\* also operand bytes, and a byte that is no opcode.
CodeBytes == {OpConstant, OpAdd, OpSub, 3}

\* The constant pools of the bytecode.
Pools ==
    {<<>>, <<Int64Value(I64(5))>>, <<Int64Value(I64(5)), Int64Value(MaxInt64)>>}

\* The values the holder pushes.
PushValues == {Int64Value(I64(7)), Nil}

\* n times OpConstant 0.
PushN(n) == [i \in 1..(3 * n) |-> IF i % 3 = 1 THEN OpConstant ELSE 0]

\* What follows the StackSize + 1 loads of the deep programs.
DeepTails == {<<>>, <<OpAdd, OpConstant, 0, 0, OpConstant, 0, 0>>}

\* A holder has a fresh VM over the bytecode.
VMStarts(bytecode) ==
    /\ lx = NoLexer
    /\ tok = NoToken
    /\ fatal = NoPanic
    /\ p = NoParser
    /\ program = NoProgram
    /\ c = NoCompiler
    /\ vm = NewVM(bytecode)
    /\ ip = 0
    /\ runErr = NoResult
    /\ top = NoResult
    /\ pc = "vm"
    /\ given = [kind |-> "bytecode"]
    /\ calls = 0
    /\ ret = NoCall
    /\ str = NoString

\* Run is at its iteration number n + 1 over bytecode that starts with more
\* than n loads of constant 0: the n iterations before have pushed it n
\* times and moved ip by three bytes each.
VMRunsDeep(bytecode, n) ==
    /\ lx = NoLexer
    /\ tok = NoToken
    /\ fatal = NoPanic
    /\ p = NoParser
    /\ program = NoProgram
    /\ c = NoCompiler
    /\ vm = [bytecode |-> bytecode,
             stack |-> [i \in 1..n |-> bytecode.Constants[1]],
             sp |-> n]
    /\ ip = 3 * n
    /\ runErr = NoResult
    /\ top = NoResult
    /\ pc = "run"
    /\ given = [kind |-> "bytecode"]
    /\ calls = 0
    /\ ret = NoCall
    /\ str = NoString

InitVM ==
    \/ \E ins \in SeqsUpTo(CodeBytes, MaxCodeLen), pool \in Pools :
           VMStarts([Instructions |-> ins, Constants |-> pool])
    \/ \E tail \in DeepTails, pool \in Pools \ {<<>>} :
           VMRunsDeep([Instructions |-> PushN(StackSize + 1) \o tail, Constants |-> pool],
                      StackSize - 2)

\* The holder is free to call: Run is not running and no panic has ended
\* the process.
HolderCalls ==
    /\ pc \in {"vm", "ran"}
    /\ fatal = NoPanic
    /\ calls < MaxDirectCalls
    /\ calls' = calls + 1

\* vm.push(o)
PushCall ==
    /\ HolderCalls
    /\ \E o \in PushValues : \E r \in {push(vm, o)} :
           /\ vm' = r.vm
           /\ ret' = [op |-> "push", value |-> r.err]
    /\ UNCHANGED <<lx, tok, fatal, p, program, c, ip, runErr, top, pc, given, str>>

\* vm.pop()
PopCall ==
    /\ HolderCalls
    /\ \E r \in {pop(vm)} :
           /\ vm' = r.vm
           /\ ret' = [op |-> "pop", value |-> r.value]
    /\ UNCHANGED <<lx, tok, fatal, p, program, c, ip, runErr, top, pc, given, str>>

\* vm.StackTop(), whenever the holder likes.
StackTopPeek ==
    /\ pc \in {"vm", "ran", "done"}
    /\ fatal = NoPanic
    /\ calls < MaxDirectCalls
    /\ calls' = calls + 1
    /\ ret' = [op |-> "StackTop", value |-> StackTop(vm)]
    /\ UNCHANGED <<lx, tok, fatal, p, program, c, vm, ip, runErr, top, pc, given, str>>

\* vm.Run() once more on the same VM.
RunAgain ==
    /\ HolderCalls
    /\ pc = "ran"
    /\ ip' = 0
    /\ runErr' = NoResult
    /\ pc' = "run"
    /\ ret' = [op |-> "Run", value |-> NoResult]
    /\ UNCHANGED <<lx, tok, fatal, p, program, c, vm, top, given, str>>

NextVM ==
    \/ RunCall
    \/ RunStep
    \/ RunReturn
    \/ ExitOnRunError
    \/ PushCall
    \/ PopCall
    \/ StackTopPeek
    \/ RunAgain

SpecVM == InitVM /\ [][NextVM]_vars

--------------------------------------------------------------------------
(* Programs handed to the compiler as trees, then run as main runs them *)

MaxPeeks == 2

\* The token of a literal of a tree built by hand.
NumberToken == Token("NUMBER", <<>>, 1, 1)

AstValues == {MinInt64, Neg64(I64(1)), Zero64, I64(1), I64(65536), MaxInt64}

AstLiterals == {IntegerLiteral(NumberToken, n) : n \in AstValues}

AstOperators == {Str(<<"+">>), Str(<<"-">>), Str(<<"*">>)}

AstPrograms ==
    {Program(Nil)}
    \cup {Program(e) : e \in AstLiterals}
    \cup {Program(InfixExpression(Token("PLUS", op, 1, 1), op, l, r)) :
             op \in AstOperators, l \in AstLiterals, r \in AstLiterals \cup {Nil}}

\* main holds a program no error was reported for.
AstStarts(prog) ==
    /\ lx = NoLexer
    /\ tok = NoToken
    /\ fatal = NoPanic
    /\ p = NoParser
    /\ program = prog
    /\ c = NoCompiler
    /\ vm = NoVM
    /\ ip = 0
    /\ runErr = NoResult
    /\ top = NoResult
    /\ pc = "parsed"
    /\ given = [kind |-> "ast"]
    /\ calls = 0
    /\ ret = NoCall
    /\ str = NoString

InitAst == \E prog \in AstPrograms : AstStarts(prog)

\* StackTopPeek within the bound of these runs.
AstPeek == calls < MaxPeeks /\ StackTopPeek

NextAst ==
    \/ CompileCall
    \/ VMNewCall
    \/ RunCall
    \/ RunStep
    \/ RunReturn
    \/ StackTopCall
    \/ AstPeek

SpecAst == InitAst /\ [][NextAst]_vars

--------------------------------------------------------------------------
(* Compile inside a long chain: the calls for the right operands *)

MaxRights == 2

\* How many literals the left operand of the node being compiled holds.
LeftLiterals == {1, 2, 3, 255, 256, 257, 65535, 65536}

\* The compiler as Compile leaves it after a chain of n literals of value 1.
AfterChain(n) == [chain |-> n, instructions |-> <<>>, constants |-> <<>>]

\* The right operands: the parser makes them integer literals.
RightLiterals == {IntegerLiteral(NumberToken, I64(7)), IntegerLiteral(NumberToken, Neg64(I64(1)))}

\* Compile is in its InfixExpression case, c.Compile(node.Left) having
\* returned nil for a left operand that is a chain of n literals.
CompileStarts(n) ==
    /\ lx = NoLexer
    /\ tok = NoToken
    /\ fatal = NoPanic
    /\ p = NoParser
    /\ program = NoProgram
    /\ c = AfterChain(n)
    /\ vm = NoVM
    /\ ip = 0
    /\ runErr = NoResult
    /\ top = NoResult
    /\ pc = "compile_right"
    /\ given = [kind |-> "tree", right |-> Nil]
    /\ calls = 0
    /\ ret = NoCall
    /\ str = NoString

InitCompile == \E n \in LeftLiterals : CompileStarts(n)

\* err = c.Compile(node.Right), the emit of the node's operator and the
\* return to the Compile of the node above, whose left operand this was.
CompileRightCall ==
    /\ pc = "compile_right"
    /\ calls < MaxRights
    /\ \E right \in RightLiterals, op \in {OpAdd, OpSub} :
       \E r \in {Compile(c, right)} :
           /\ c' = emit(r.c, op, <<>>)
           /\ ret' = [op |-> "Compile", value |-> r.err]
           /\ given' = [given EXCEPT !.right = right]
    /\ calls' = calls + 1
    /\ UNCHANGED <<lx, tok, fatal, p, program, vm, ip, runErr, top, pc, str>>

NextCompile == CompileRightCall

SpecCompile == InitCompile /\ [][NextCompile]_vars

--------------------------------------------------------------------------
(* Instructions.String called on instruction streams *)

MaxTextLen == 4

MaxIterations == 6

\* Streams with operands that need both bytes and several digits.
WideStreams ==
    {<<OpConstant, 255, 255, OpSub>>, <<OpConstant, 0, 10, OpConstant, 1, 0, OpAdd>>}

\* A holder has an Instructions value.
StringStarts(ins) ==
    /\ lx = NoLexer
    /\ tok = NoToken
    /\ fatal = NoPanic
    /\ p = NoParser
    /\ program = NoProgram
    /\ c = NoCompiler
    /\ vm = NoVM
    /\ ip = 0
    /\ runErr = NoResult
    /\ top = NoResult
    /\ pc = "instructions"
    /\ given = [kind |-> "instructions"]
    /\ calls = 0
    /\ ret = NoCall
    /\ str = [NoString EXCEPT !.ins = ins]

InitString ==
    \E ins \in SeqsUpTo(CodeBytes, MaxTextLen) \cup WideStreams : StringStarts(ins)

\* ins.String(): var out string; i := 0
StringCall ==
    /\ pc = "instructions"
    /\ str' = [str EXCEPT !.i = 0, !.out = <<>>, !.n = 0]
    /\ pc' = "string"
    /\ UNCHANGED <<lx, tok, fatal, p, program, c, vm, ip, runErr, top, given, calls, ret>>

\* One iteration of the loop of String; n counts the iterations.
StringStep ==
    /\ pc = "string"
    /\ fatal = NoPanic
    /\ str.i < Len(str.ins)
    /\ str.n < MaxIterations
    /\ \E r \in {StringIteration(str)} :
           /\ str' = [r.st EXCEPT !.n = @ + 1]
           /\ fatal' = r.panic
    /\ UNCHANGED <<lx, tok, p, program, c, vm, ip, runErr, top, pc, given, calls, ret>>

\* The loop of String ends: return out.
StringReturn ==
    /\ pc = "string"
    /\ fatal = NoPanic
    /\ str.i >= Len(str.ins)
    /\ ret' = [op |-> "String", value |-> str.out]
    /\ pc' = "stringed"
    /\ UNCHANGED <<lx, tok, fatal, p, program, c, vm, ip, runErr, top, given, calls, str>>

NextString ==
    \/ StringCall
    \/ StringStep
    \/ StringReturn

SpecString == InitString /\ [][NextString]_vars

--------------------------------------------------------------------------
(* What the sources of the chain specifications mean, read as decimal *)

\* The decimal value of the first k digits of a digit string.
RECURSIVE DecimalValue(_, _)
DecimalValue(s, k) ==
    IF k = 0 THEN 0 ELSE DecimalValue(s, k - 1) * 10 + (s[k] - Ord["0"])

\* A digit string short enough for its decimal value to be computed here.
IsShort(s) == Len(s) <= 4

\* n0 op1 n1 ... op(k-1) n(k-1), evaluated left to right in the integers,
\* each literal read as a decimal number.
RECURSIVE LeftToRight(_, _)
LeftToRight(g, k) ==
    IF k = 1 THEN DecimalValue(g.lits[1], Len(g.lits[1]))
    ELSE IF g.ops[k - 1] = Ord["+"]
    THEN LeftToRight(g, k - 1) + DecimalValue(g.lits[k], Len(g.lits[k]))
    ELSE LeftToRight(g, k - 1) - DecimalValue(g.lits[k], Len(g.lits[k]))

\* The decimal value of the first k digits of a digit string over uint64,
\* and whether it needed more than 64 bits.
RECURSIVE Decimal64(_, _)
Decimal64(s, k) ==
    IF k = 0 THEN [value |-> Zero64, overflow |-> FALSE]
    ELSE The({[value |-> MulAdd64(d.value, 10, s[k] - Ord["0"]).value,
               overflow |-> d.overflow \/ MulAdd64(d.value, 10, s[k] - Ord["0"]).overflow]
              : d \in {Decimal64(s, k - 1)}})

\* The decimal value of a digit string fits in 64 bits signed.
FitsInt64(s) ==
    /\ ~Decimal64(s, Len(s)).overflow
    /\ ~IsNeg64(Decimal64(s, Len(s)).value)

--------------------------------------------------------------------------
(* What a source text says, read without the lexer *)

\* The characters after which the operator switch of NextToken has a case.
OperatorChars ==
    {Ord[ch] : ch \in {"=", "!", "<", ">", "+", "-", "*", "/", ";", ",", "(", ")",
                       "{", "}", "[", "]", ":"}}

\* A character some rule of NextToken matches.
IsRecognized(ch) ==
    \/ IsSpace(ch)
    \/ ch \in {Ord["'"], Ord["\""]}
    \/ IsLetter(ch)
    \/ IsDigit(ch)
    \/ ch \in OperatorChars

\* The character at offset q (from 0) of a text, 0 past its end.
CharAt(input, q) == IF q < Len(input) THEN input[q + 1] ELSE 0

\* The offset of the first character at or after offset q that is not
\* whitespace, Len(input) when there is none.
FirstNonSpace(input, q) ==
    CHOOSE j \in q..Len(input) :
        /\ j = Len(input) \/ ~IsSpace(input[j + 1])
        /\ \A i \in q..(j - 1) : IsSpace(input[i + 1])

\* The 1-based line and column of the character at offset q.
LineAt(input, q) == 1 + Cardinality({i \in 1..q : input[i] = Ord["\n"]})

ColumnAt(input, q) ==
    LET newlines == {i \in 1..q : input[i] = Ord["\n"]}
    IN  IF newlines = {} THEN q + 1
        ELSE q + 1 - (CHOOSE i \in newlines : \A k \in newlines : k <= i)

\* The offset after the maximal run of letters and digits that starts at
\* offset q.
RunEnd(input, q) ==
    CHOOSE j \in q..Len(input) :
        /\ j = Len(input) \/ ~(IsLetter(input[j + 1]) \/ IsDigit(input[j + 1]))
        /\ \A i \in q..(j - 1) : IsLetter(input[i + 1]) \/ IsDigit(input[i + 1])

\* NextToken is called, its lexer being where no panic has ended it.
CallingNextToken == pc = "lex" /\ fatal = NoPanic

\* The offset of the character the call has to classify.
Classified == FirstNonSpace(lx.input, lx.pos)

--------------------------------------------------------------------------
(* Claims *)

\* C1: for a source of decimal integer literals separated by + or - and
\* whitespace, the whole pipeline leaves as StackTop() the value of the
\* literal sequence evaluated left to right, each literal read as its
\* decimal value.
C1_PipelineEvaluatesDecimalLeftToRight ==
    (/\ pc = "done"
     /\ given.kind = "chain"
     /\ \A i \in 1..Len(given.lits) : IsShort(given.lits[i]))
    => top = Int64Value(I64(LeftToRight(given, Len(given.lits))))

\* C2: after ParseProgram has returned, Errors() is non-empty if and only
\* if an operand token failed to convert to int64; and for a chain of
\* decimal digit strings that each fit in 64 bits signed, Errors() is empty.
C2_ErrorsIffConversionFailed ==
    (/\ pc \notin {"new_parser", "parse"}
     /\ fatal = NoPanic
     /\ given.kind = "chain")
    => /\ Len(p.errors) # 0 <=> \E i \in 1..Len(given.lits) : ~ParseInt(given.lits[i]).ok
       /\ (\A i \in 1..Len(given.lits) : FitsInt64(given.lits[i])) => Len(p.errors) = 0

\* The character each of the six escapes stands for.
SixEscapes ==
    {<<Ord["n"], Ord["\n"]>>, <<Ord["t"], Ord["\t"]>>, <<Ord["r"], Ord["\r"]>>,
     <<Ord["'"], Ord["'"]>>, <<Ord["\""], Ord["\""]>>, <<Ord["\\"], Ord["\\"]>>}

\* The call reads a literal that opens with the quote and a backslash.
OpensWithEscape(quote) ==
    /\ CallingNextToken
    /\ CharAt(lx.input, Classified) = quote
    /\ CharAt(lx.input, Classified + 1) = Ord["\\"]

\* The call's panic is about the character after that backslash.
RejectsEscape ==
    /\ fatal'.kind = "invalid escape"
    /\ fatal'.line = LineAt(lx.input, Classified + 2)
    /\ fatal'.column = ColumnAt(lx.input, Classified + 2)

\* The call reads a literal after whose opening quote no quote follows.
Unterminated(quote) ==
    /\ CallingNextToken
    /\ CharAt(lx.input, Classified) = quote
    /\ \A i \in (Classified + 2)..Len(lx.input) : lx.input[i] # quote

\* C3: in character literals and in string literals each of the six
\* escapes \n \t \r \' \" \\ is accepted and decodes to its character in
\* the token's value; any other character after a backslash, and a literal
\* without its closing quote, make NextToken panic.
C3_SixEscapesInBothLiterals ==
    [][\A quote \in {Ord["'"], Ord["\""]} :
        /\ OpensWithEscape(quote) =>
              IF \E e \in SixEscapes : e[1] = CharAt(lx.input, Classified + 2)
              THEN /\ ~RejectsEscape
                   /\ fatal' = NoPanic =>
                         \E e \in SixEscapes :
                            /\ e[1] = CharAt(lx.input, Classified + 2)
                            /\ tok'.Value[1] = e[2]
              ELSE fatal' # NoPanic
        /\ Unterminated(quote) => fatal' # NoPanic]_vars

\* C6: when the character NextToken has to classify is matched by none of
\* its rules, NextToken panics with that character and the line and column
\* where it stands, whatever the character and wherever it stands.
C6_UnrecognizedCharacterPanics ==
    [][(/\ CallingNextToken
        /\ Classified < Len(lx.input)
        /\ ~IsRecognized(CharAt(lx.input, Classified)))
       => fatal' = Panic("unexpected character", CharAt(lx.input, Classified),
                         LineAt(lx.input, Classified), ColumnAt(lx.input, Classified))]_vars

\* The call classifies a letter: the run it starts, as the source has it.
ClassifiesLetter == CallingNextToken /\ IsLetter(CharAt(lx.input, Classified))

RunText == SubSeq(lx.input, Classified + 1, RunEnd(lx.input, Classified))

\* The kind the keyword table gives a word: its keyword kind when it is
\* one of the reserved words, IDENTIFIER otherwise.
KindOfWord(word) ==
    IF \E i \in 1..Len(reverseKeywords) : reverseKeywords[i].word = word
    THEN reverseKeywords[CHOOSE i \in 1..Len(reverseKeywords) :
                            reverseKeywords[i].word = word].type
    ELSE "IDENTIFIER"

\* C9: for a maximal run of letters and digits that starts with a letter
\* NextToken returns one token whose text is the whole run; its kind is the
\* keyword kind when the text is one of the 20 reserved words and
\* IDENTIFIER otherwise.
C9_WordsAndKeywords ==
    [][ClassifiesLetter =>
          /\ fatal' = NoPanic
          /\ tok'.Value = RunText
          /\ tok'.Type = KindOfWord(RunText)
          /\ tok'.Type \in KeywordTypes <=> RunText \in ReservedWords
          /\ tok'.Line = LineAt(lx.input, Classified)
          /\ tok'.Column = ColumnAt(lx.input, Classified)
          /\ lx'.pos = RunEnd(lx.input, Classified)]_vars

\* A reserved word with a letter added has come out as an identifier.
C9_Witness ==
    /\ tok # NoToken
    /\ tok.Type = "IDENTIFIER"
    /\ \E w \in ReservedWords : tok.Value = w \o Str(<<"x">>)
    /\ lx.pos < Len(lx.input)

\* The operators that have a two-character form, with the kinds of both.
EqualOperators ==
    {<<Ord["="], "ASSIGN", "EQUAL">>, <<Ord["!"], "NOT", "NOTEQ">>,
     <<Ord["<"], "LESS", "LessEqual">>, <<Ord[">"], "GREAT", "GreatEqual">>}

\* C10: when the character classified is one of = ! < >, NextToken returns
\* the two-character token and consumes two characters if and only if the
\* next character is '='; otherwise it returns the one-character token and
\* consumes one character, the next call starting at the character after.
C10_OneCharacterOfLookahead ==
    [][\A op \in EqualOperators :
          (CallingNextToken /\ CharAt(lx.input, Classified) = op[1]) =>
              /\ fatal' = NoPanic
              /\ IF CharAt(lx.input, Classified + 1) = Ord["="]
                 THEN /\ tok'.Type = op[3]
                      /\ tok'.Value = <<op[1], Ord["="]>>
                      /\ lx'.pos = Classified + 2
                 ELSE /\ tok'.Type = op[2]
                      /\ tok'.Value = <<op[1]>>
                      /\ lx'.pos = Classified + 1
              /\ lx'.currentChar = CharAt(lx.input, lx'.pos)]_vars

\* "<=" has been read as one token, the '=' after it being left.
C10_Witness ==
    /\ tok # NoToken
    /\ tok.Type = "LessEqual"
    /\ lx.pos = 2
    /\ CharAt(lx.input, 0) = Ord["<"]
    /\ lx.currentChar = Ord["="]

\* The instruction bytes a call of Compile has added.
Emitted == SubSeq(c'.instructions, Len(c.instructions) + 1, Len(c'.instructions))

\* C5: each load-constant instruction Compile emits for a literal carries,
\* as VM.Run decodes its two operand bytes, the index at which the
\* literal's value was just appended to the constant pool, so that the
\* index designates the literal's own value.
C5_OperandIsPoolIndex ==
    [][(pc = "compile_right" /\ calls' = calls + 1) =>
          /\ ConstantsLen(c') = ConstantsLen(c) + 1
          /\ Len(Emitted) = 4
          /\ Emitted[1] = OpConstant
          /\ ReadUint16(Emitted, 1) = ConstantsLen(c') - 1
          /\ ConstantAt(c', ReadUint16(Emitted, 1)) = Int64Value(given'.right.Value)]_vars

\* The steps of a VM, told by what they leave.
HolderPushes == ret'.op = "push" /\ calls' = calls + 1

HolderPops == ret'.op = "pop" /\ calls' = calls + 1

RunIterates == pc = "run" /\ fatal = NoPanic /\ ip < Len(vm.bytecode.Instructions)

\* The iteration Run is about to make loads a constant: its opcode is
\* OpConstant and its operand designates a constant of the pool.
RunLoads ==
    /\ RunIterates
    /\ vm.bytecode.Instructions[ip + 1] = OpConstant
    /\ ip + 2 < Len(vm.bytecode.Instructions)
    /\ ReadUint16(vm.bytecode.Instructions, ip + 1) < Len(vm.bytecode.Constants)

\* The iteration Run is about to make adds or subtracts.
RunCalculates ==
    /\ RunIterates
    /\ vm.bytecode.Instructions[ip + 1] \in {OpAdd, OpSub}

\* C4: a push attempted while sp = StackSize returns the overflow error,
\* stores nothing and leaves sp and the stack as they are; Run stops at
\* that instruction and returns the error; and no push fails while
\* sp < StackSize.
C4_OverflowAtCapacity ==
    [][/\ (RunLoads /\ vm.sp = StackSize) =>
              /\ vm' = vm
              /\ runErr' = StackOverflow
              /\ pc' = "ran"
              /\ ip' = ip + 3
              /\ fatal' = NoPanic
       /\ (HolderPushes /\ vm.sp = StackSize) =>
              /\ vm' = vm
              /\ ret'.value = StackOverflow
       /\ (pc = "run" /\ pc' = "ran" /\ runErr' # Nil) => (RunLoads /\ vm.sp = StackSize)
       /\ (HolderPushes /\ ret'.value # Nil) => vm.sp = StackSize
       /\ (RunLoads /\ vm.sp < StackSize) =>
              /\ vm'.sp = vm.sp + 1
              /\ pc' = "run"
       /\ (HolderPushes /\ vm.sp < StackSize) => vm'.sp = vm.sp + 1]_vars

\* Run has returned the overflow error from the load number StackSize + 1,
\* the stack holding StackSize values.
C4_Witness ==
    /\ pc = "ran"
    /\ runErr = StackOverflow
    /\ vm.sp = StackSize
    /\ Len(vm.stack) = StackSize
    /\ ip = 3 * (StackSize + 1)

\* The program is a single integer literal.
SingleLiteral ==
    /\ given.kind = "ast"
    /\ program.kind = "Program"
    /\ program.Expression.kind = "IntegerLiteral"

\* A step that is a call of StackTop, and what the call returned.
StackTopReturns(value) ==
    \/ pc = "ran" /\ pc' = "done" /\ top' = value
    \/ ret'.op = "StackTop" /\ calls' = calls + 1 /\ ret'.value = value

StackTopCalled == \E value \in {top', ret'.value} : StackTopReturns(value)

\* C7: the bytecode compiled from a single integer literal n, run on a
\* fresh VM, leaves exactly one value on the stack and StackTop returns n;
\* StackTop changes neither sp nor the stack, however often it is called,
\* and returns nil on an empty stack.
C7_LiteralRoundTrip ==
    /\ [](SingleLiteral =>
            /\ pc \in {"ran", "done"} =>
                  /\ runErr = Nil
                  /\ fatal = NoPanic
                  /\ vm.sp = 1
                  /\ vm.stack = <<Int64Value(program.Expression.Value)>>
            /\ pc = "done" => top = Int64Value(program.Expression.Value))
    /\ [][StackTopCalled =>
            /\ vm' = vm
            /\ StackTopReturns(IF vm.sp = 0 THEN Nil ELSE vm.stack[vm.sp])]_vars

\* The smallest int64 has come back from main's StackTop and from two more.
C7_Witness ==
    /\ pc = "done"
    /\ program = Program(IntegerLiteral(NumberToken, MinInt64))
    /\ top = Int64Value(MinInt64)
    /\ calls = 2
    /\ ret = [op |-> "StackTop", value |-> Int64Value(MinInt64)]
    /\ vm.sp = 1

\* C8: in every state of a VM, whatever the bytecode and whatever the
\* pushes, pops, StackTops and Runs made on it, 0 <= sp <= StackSize; a pop
\* on an empty stack leaves sp at 0 and a push on a full stack leaves sp at
\* StackSize.
C8_StackPointerInRange ==
    /\ [](vm.sp \in 0..StackSize)
    /\ [][/\ (HolderPops /\ vm.sp = 0) => (vm'.sp = 0 /\ ret'.value = Nil)
          /\ (RunCalculates /\ vm.sp <= 1) => vm'.sp = 0
          /\ (HolderPushes /\ vm.sp = StackSize) => vm'.sp = StackSize
          /\ (RunLoads /\ vm.sp = StackSize) => vm'.sp = StackSize]_vars

\* The holder has pushed onto the full stack a Run left.
C8_Witness ==
    /\ vm.sp = StackSize
    /\ ret = [op |-> "push", value |-> StackOverflow]
    /\ runErr = StackOverflow

\* C11: once NextToken has returned the end-of-input token, every later
\* call returns it again, with the same line and column, and leaves the
\* lexer's position, line and column as they are.
C11_EndOfInputIsIdempotent ==
    [][(CallingNextToken /\ tok.Type = "EOF" /\ calls' = calls + 1) =>
          /\ fatal' = NoPanic
          /\ tok' = tok
          /\ lx' = lx]_vars

\* The end of "1\n" has been returned three times.
C11_Witness ==
    /\ lx.input = Str(<<"1", "\n">>)
    /\ calls = 4
    /\ tok = Token("EOF", <<>>, 2, 1)
    /\ lx.pos = 2

\* C12: on a source without a fatal condition the calls of NextToken
\* return finitely many tokens and then the end-of-input token: the read
\* position never decreases, a call that returns another token than the
\* end of input increases it, so that there are no more such calls than
\* characters, and the end of input is returned only when every character
\* has been consumed.
C12_TokensThenEndOfInput ==
    /\ [](lx.pos <= Len(lx.input))
    /\ []((pc = "lex" /\ fatal = NoPanic /\ tok.Type \notin {"none", "EOF"}) =>
             calls <= lx.pos)
    /\ [][(CallingNextToken /\ calls' = calls + 1 /\ fatal' = NoPanic) =>
             /\ lx'.pos >= lx.pos
             /\ tok'.Type # "EOF" => lx'.pos > lx.pos
             /\ tok'.Type = "EOF" => lx'.pos = Len(lx.input)]_vars

\* The instructions of a stream, read as the encoding has them: an
\* OpConstant with its two operand bytes, an OpAdd, an OpSub; from offset i.
RECURSIVE InstructionsFrom(_, _)
InstructionsFrom(ins, i) ==
    IF i >= Len(ins) THEN <<>>
    ELSE IF ins[i + 1] = OpConstant /\ i + 2 < Len(ins)
    THEN <<[op |-> OpConstant, operand |-> ins[i + 2] * 256 + ins[i + 3], width |-> 3]>>
         \o InstructionsFrom(ins, i + 3)
    ELSE IF ins[i + 1] \in {OpAdd, OpSub}
    THEN <<[op |-> ins[i + 1], operand |-> 0, width |-> 1]>> \o InstructionsFrom(ins, i + 1)
    ELSE <<[op |-> 3, operand |-> 0, width |-> 1]>> \o InstructionsFrom(ins, i + 1)

\* The lines of a text, each without the newline that ends it; what
\* follows the last newline is not a line.
RECURSIVE LinesOf(_)
LinesOf(text) ==
    IF \A k \in 1..Len(text) : text[k] # Ord["\n"] THEN <<>>
    ELSE LET k == CHOOSE k \in 1..Len(text) :
                      /\ text[k] = Ord["\n"]
                      /\ \A j \in 1..(k - 1) : text[j] # Ord["\n"]
         IN  <<SubSeq(text, 1, k - 1)>> \o LinesOf(SubSeq(text, k + 1, Len(text)))

\* A line says what the instruction is.
LineSays(line, instr) ==
    CASE instr.op = OpConstant ->
            /\ Len(line) > 11
            /\ SubSeq(line, 1, 11) = Str(<<"O", "p", "C", "o", "n", "s", "t", "a", "n", "t", " ">>)
            /\ \A k \in 12..Len(line) : IsDigit(line[k])
            /\ line[12] # Ord["0"] \/ Len(line) = 12
            /\ DecimalValue(SubSeq(line, 12, Len(line)), Len(line) - 11) = instr.operand
      [] instr.op = OpAdd -> line = Str(<<"O", "p", "A", "d", "d">>)
      [] instr.op = OpSub -> line = Str(<<"O", "p", "S", "u", "b">>)
      [] OTHER -> FALSE

ChainParsed == pc \notin {"new_parser", "parse"} /\ fatal = NoPanic /\ given.kind = "chain"

\* e is the strictly left-nested tree of the first k literals of chain g:
\* the literal n0 when k = 1, else the infix node of the last operator whose
\* Right is the literal of the last number token and whose Left is the tree
\* of the literals before.
RECURSIVE IsLeftNested(_, _, _)
IsLeftNested(e, g, k) ==
    IF k = 1
    THEN /\ e.kind = "IntegerLiteral"
         /\ e.Token.Value = g.lits[1]
    ELSE /\ e.kind = "InfixExpression"
         /\ e.Operator = <<g.ops[k - 1]>>
         /\ e.Token.Type = (IF g.ops[k - 1] = Ord["+"] THEN "PLUS" ELSE "MINUS")
         /\ e.Right.kind = "IntegerLiteral"
         /\ e.Right.Token.Value = g.lits[k]
         /\ IsLeftNested(e.Left, g, k - 1)

\* C14: for a chain n0 op1 n1 ... opk nk whose literals all convert,
\* ParseProgram returns the strictly left-nested tree: every Right operand
\* is the integer literal of its number token and the operators stand in
\* source order from the innermost node to the root.
C14_LeftNestedTree ==
    (ChainParsed /\ Len(p.errors) = 0) =>
        /\ program.kind = "Program"
        /\ IsLeftNested(program.Expression, given, Len(given.lits))

\* A chain of two different operators has been parsed without an error.
C14_Witness ==
    /\ ChainParsed
    /\ pc = "parsed"
    /\ Len(p.errors) = 0
    /\ given.ops = <<Ord["-"], Ord["+"]>>
    /\ program.Expression.Operator = Str(<<"+">>)
    /\ program.Expression.Left.Operator = Str(<<"-">>)

\* Compile has returned nil for the tree of a chain.
ChainCompiled ==
    /\ pc \in {"compiled", "vm", "run", "ran", "done"}
    /\ fatal = NoPanic
    /\ given.kind = "chain"

\* The load of the constant at pool index i < 2^16: the opcode, then the
\* index in two bytes, high byte first.
Const(i) == <<OpConstant, i \div 256, i % 256>>

OpcodeOf(operator) == IF operator = Str(<<"+">>) THEN OpAdd ELSE OpSub

\* Const 0, Const 1, op1, Const 2, op2, ..., Const k-1, op(k-1)
RECURSIVE ChainStream(_, _)
ChainStream(g, k) ==
    IF k = 1 THEN Const(0)
    ELSE ChainStream(g, k - 1) \o Const(k - 1) \o <<OpcodeOf(<<g.ops[k - 1]>>)>>

\* The values of the literals of a tree, read from left to right.
RECURSIVE LiteralValues(_)
LiteralValues(e) ==
    CASE e.kind = "IntegerLiteral" -> <<Int64Value(e.Value)>>
      [] e.kind = "InfixExpression" -> LiteralValues(e.Left) \o LiteralValues(e.Right)
      [] OTHER -> <<>>

\* The infix nodes of a tree.
RECURSIVE InfixNodes(_)
InfixNodes(e) ==
    IF e.kind = "InfixExpression"
    THEN {e} \cup InfixNodes(e.Left) \cup InfixNodes(e.Right)
    ELSE {}

\* What Compile(node) appends to the instructions of compiler cs.
Code(cs, node) ==
    LET after == Compile(cs, node).c.instructions
    IN  SubSeq(after, Len(cs.instructions) + 1, Len(after))

\* C15: for every infix node of a parsed chain, Compile appends the code of
\* the left operand, then the code of the right operand, then one opcode
\* byte, OpAdd for '+' and OpSub for '-'; the constant pool lists the
\* literal values from left to right, and the stream of the chain is
\* Const 0, Const 1, op1, Const 2, op2, ..., Const k, opk.
C15_LeftRightOperator ==
    ChainCompiled =>
        /\ \A e \in InfixNodes(program.Expression) :
               Code(NewCompiler, e) =
                   Code(NewCompiler, e.Left)
                     \o Code(Compile(NewCompiler, e.Left).c, e.Right)
                     \o <<OpcodeOf(e.Operator)>>
        /\ c.chain = 0
        /\ c.constants = LiteralValues(program.Expression)
        /\ c.instructions = ChainStream(given, Len(given.lits))
        /\ pc # "compiled" =>
               /\ vm.bytecode.Instructions = c.instructions
               /\ vm.bytecode.Constants = c.constants

\* The chain 12 - 7 + 12 has been compiled.
C15_Witness ==
    /\ ChainCompiled
    /\ pc = "compiled"
    /\ given.lits = <<Str(<<"1", "2">>), Str(<<"7">>), Str(<<"1", "2">>)>>
    /\ given.ops = <<Ord["-"], Ord["+"]>>
    /\ c.instructions = <<OpConstant, 0, 0, OpConstant, 0, 1, OpSub, OpConstant, 0, 2, OpAdd>>
    /\ c.constants = <<Int64Value(I64(12)), Int64Value(I64(7)), Int64Value(I64(12))>>

\* The iteration Run is about to make adds or subtracts the two integers
\* on top of a stack of at least two values.
RunCalculatesOnTwo ==
    /\ RunCalculates
    /\ vm.sp >= 2
    /\ Slot(vm, vm.sp - 1).kind = "int64"
    /\ Slot(vm, vm.sp - 2).kind = "int64"

\* C16: when Run executes OpAdd or OpSub with at least two integers on the
\* stack, the top value is the right operand and the next one the left; the
\* result left + right or left - right in 64-bit arithmetic with wraparound
\* takes the place of the left operand, sp decreases by exactly 1 and every
\* slot below the two operands is unchanged.
C16_ArithmeticOnTopTwo ==
    [][RunCalculatesOnTwo =>
          LET right == Slot(vm, vm.sp - 1).v
              left == Slot(vm, vm.sp - 2).v
              op == vm.bytecode.Instructions[ip + 1]
          IN  /\ fatal' = NoPanic
              /\ pc' = "run"
              /\ vm'.sp = vm.sp - 1
              /\ op = OpAdd => StackTop(vm') = Int64Value(Add64(left, right))
              /\ op = OpSub => StackTop(vm') = Int64Value(Sub64(left, right))
              /\ \A k \in 0..(vm.sp - 3) : Slot(vm', k) = Slot(vm, k)
              /\ vm'.bytecode = vm.bytecode]_vars

\* Over the values 7 and 7 Run has loaded the largest int64 and added: the
\* sum of 7 and the largest int64 has wrapped to the smallest int64 plus 6,
\* above the first 7.
C16_Witness ==
    /\ pc = "run"
    /\ fatal = NoPanic
    /\ vm.bytecode.Instructions = <<OpConstant, 0, 1, OpAdd>>
    /\ ip = 4
    /\ vm.sp = 2
    /\ Slot(vm, 0) = Int64Value(I64(7))
    /\ Slot(vm, 1) = Int64Value(<<6, 0, 0, 32768>>)

\* Run has subtracted the 5 it loaded from the 7 below it.
C16_Subtracted ==
    /\ pc = "run"
    /\ vm.bytecode.Instructions = <<OpConstant, 0, 0, OpSub>>
    /\ ip = 4
    /\ vm.sp = 1
    /\ Slot(vm, 0) = Int64Value(I64(2))

\* The encoded width of an instruction: the opcode and two operand bytes
\* for OpConstant, the opcode alone for the others.
Width(op) == IF op = OpConstant THEN 3 ELSE 1

\* The offsets at which the instructions of a stream start, from offset i.
RECURSIVE Offsets(_, _)
Offsets(ins, i) ==
    IF i >= Len(ins) THEN {} ELSE {i} \cup Offsets(ins, i + Width(ins[i + 1]))

\* The number of instructions of the stream that start before offset i.
InstructionsBefore(ins, i) == Cardinality({o \in Offsets(ins, 0) : o < i})

\* C17: Run starts with the instruction pointer at 0 and each iteration
\* advances it by the encoded width of the instruction fetched, 3 bytes for
\* OpConstant and 1 byte for OpAdd and OpSub; the pointer never decreases,
\* and on the stream compiled from a parsed chain Run makes one iteration
\* per instruction and then returns nil.
C17_PointerAdvancesByWidth ==
    /\ [](pc = "run" =>
            ip \in Offsets(vm.bytecode.Instructions, 0) \cup {Len(vm.bytecode.Instructions)})
    /\ [][/\ (pc = "vm" /\ pc' = "run") => ip' = 0
          /\ RunIterates =>
                 /\ ip' = ip + Width(vm.bytecode.Instructions[ip + 1])
                 /\ vm.bytecode.Instructions[ip + 1] \in {OpConstant, OpAdd, OpSub}
                 /\ InstructionsBefore(vm.bytecode.Instructions, ip')
                        = InstructionsBefore(vm.bytecode.Instructions, ip) + 1
                 /\ fatal' = NoPanic
                 /\ pc' = "run"
          /\ pc = "run" => ip' >= ip
          /\ (pc = "run" /\ pc' = "ran") =>
                 /\ ip = Len(vm.bytecode.Instructions)
                 /\ InstructionsBefore(vm.bytecode.Instructions, ip)
                        = Cardinality(Offsets(vm.bytecode.Instructions, 0))
                 /\ runErr' = Nil]_vars
    /\ (pc = "run") ~> (pc = "ran")

\* Run has returned from the five instructions of 12 - 7 + 12, its pointer
\* at the end of their eleven bytes.
C17_Witness ==
    /\ pc = "ran"
    /\ runErr = Nil
    /\ fatal = NoPanic
    /\ vm.bytecode.Instructions
           = <<OpConstant, 0, 0, OpConstant, 0, 1, OpSub, OpConstant, 0, 2, OpAdd>>
    /\ ip = 11
    /\ InstructionsBefore(vm.bytecode.Instructions, ip) = 5

\* ParseProgram has returned for a chain of literals that fit in 64 bits,
\* written before a token that is neither '+' nor '-'.
TrailedChainParsed ==
    /\ pc \notin {"new_parser", "parse"}
    /\ given.kind = "trailed"
    /\ \A i \in 1..Len(given.lits) : FitsInt64(given.lits[i])

\* C18: when a valid chain is followed by a token that is neither '+' nor
\* '-', the parser stops at that token without an error: ParseProgram
\* returns the tree of the chain alone, Errors() is empty, the current token
\* is the last literal of the chain and the token after the chain is only
\* peeked at, the lexer having read nothing after it; the pipeline goes on
\* and its result is the value of the chain.
C18_StopsAtTrailingToken ==
    TrailedChainParsed =>
        LET n == Len(given.lits)
        IN  /\ fatal = NoPanic
            /\ pc # "exit"
            /\ Len(p.errors) = 0
            /\ program.kind = "Program"
            /\ IsLeftNested(program.Expression, given, n)
            /\ p.curToken.Type = "NUMBER"
            /\ p.curToken.Value = given.lits[n]
            /\ p.peekToken.Type = given.trail.type
            /\ p.peekToken.Value = given.trail.value
            /\ lx.pos = Len(ChainText(given, n)) + Len(given.trail.first)
            /\ pc = "done" => top = Int64Value(I64(LeftToRight(given, n)))

\* The pipeline has given 5 for the source 12-7; @, whose last character
\* no token can start with.
C18_Witness ==
    /\ TrailedChainParsed
    /\ pc = "done"
    /\ lx.input = Str(<<"1", "2", "-", "7", ";", " ", "@">>)
    /\ top = Int64Value(I64(5))
    /\ p.peekToken.Type = "SEMICOLON"

\* The operand the parser makes of the literal number i of chain g: absent
\* when its text does not convert.
OperandAt(e, g, i) ==
    IF ParseInt(g.lits[i]).ok
    THEN e.kind = "IntegerLiteral" /\ e.Token.Value = g.lits[i]
    ELSE e = Nil

\* e is the left-nested tree of the first k literals of chain g, with an
\* absent operand wherever the text does not convert.
RECURSIVE IsBestEffort(_, _, _)
IsBestEffort(e, g, k) ==
    IF k = 1 THEN OperandAt(e, g, 1)
    ELSE /\ e.kind = "InfixExpression"
         /\ e.Operator = <<g.ops[k - 1]>>
         /\ OperandAt(e.Right, g, k)
         /\ IsBestEffort(e.Left, g, k - 1)

\* The messages of the literals of the first k operand positions that do
\* not convert, in source order.
RECURSIVE FailureMessages(_, _)
FailureMessages(g, k) ==
    IF k = 0 THEN <<>>
    ELSE FailureMessages(g, k - 1)
           \o (IF ParseInt(g.lits[k]).ok THEN <<>> ELSE <<CouldNotParse(g.lits[k])>>)

\* C19: a failed conversion never aborts parsing: each operand position
\* whose text does not convert appends exactly one message and yields an
\* absent operand, the loop goes on with the tokens that follow, and at the
\* end, when ParseProgram returns, there are as many messages as failed
\* operand positions while the tree has one infix node per operator
\* consumed.
C19_FailedConversionGoesOn ==
    (ChainParsed /\ pc = "parsed") =>
        LET n == Len(given.lits)
        IN  /\ program.kind = "Program"
            /\ IsBestEffort(program.Expression, given, n)
            /\ Cardinality(InfixNodes(program.Expression)) = n - 1
            /\ p.errors = FailureMessages(given, n)
            /\ Len(p.errors) = Cardinality({i \in 1..n : ~ParseInt(given.lits[i]).ok})
            /\ p.peekToken.Type = "EOF"

\* 08 - 7 + 08 has been parsed: two messages, and both operators in a tree
\* whose first and last operands are absent.
C19_Witness ==
    /\ ChainParsed
    /\ pc = "parsed"
    /\ given.lits = <<Str(<<"0", "8">>), Str(<<"7">>), Str(<<"0", "8">>)>>
    /\ given.ops = <<Ord["-"], Ord["+"]>>
    /\ Len(p.errors) = 2
    /\ program.Expression.Right = Nil
    /\ program.Expression.Left.Left = Nil
    /\ program.Expression.Left.Right.kind = "IntegerLiteral"

\* The stream of a tree whose first literal gets pool index base: a load
\* per literal, the opcode of an infix node after its operands when its
\* operator is '+' or '-', and nothing for any other node or operator.
RECURSIVE StreamOf(_, _)
StreamOf(e, base) ==
    CASE e.kind = "IntegerLiteral" -> Const(base)
      [] e.kind = "InfixExpression" ->
            StreamOf(e.Left, base)
              \o StreamOf(e.Right, base + Len(LiteralValues(e.Left)))
              \o (IF e.Operator \in {Str(<<"+">>), Str(<<"-">>)}
                  THEN <<OpcodeOf(e.Operator)>> ELSE <<>>)
      [] OTHER -> <<>>

\* C20: Compile never returns an error: for a node that is no Program, no
\* InfixExpression and no IntegerLiteral, the absent operand of a failed
\* literal included, it leaves the instructions and the constants as they
\* are and returns nil, and for an infix node whose operator is neither '+'
\* nor '-' it compiles both operands, emits no opcode and returns nil.
C20_CompileReturnsNil ==
    (given.kind = "ast" /\ pc # "parsed") =>
        /\ pc # "exit"
        /\ c.chain = 0
        /\ c.instructions = StreamOf(program.Expression, 0)
        /\ c.constants = LiteralValues(program.Expression)

\* Compile has returned nil for 1 * (absent): one load, one constant, no
\* opcode.
C20_Witness ==
    /\ given.kind = "ast"
    /\ pc = "compiled"
    /\ program.Expression.kind = "InfixExpression"
    /\ program.Expression.Operator = Str(<<"*">>)
    /\ program.Expression.Right = Nil
    /\ c.instructions = <<OpConstant, 0, 0>>
    /\ c.constants = <<Int64Value(I64(1))>>

\* Compile has returned nil for a program without an expression, the
\* instructions and the constants still empty.
C20_NothingCompiled ==
    /\ given.kind = "ast"
    /\ pc = "compiled"
    /\ program = Program(Nil)
    /\ c = NewCompiler

\* C21: every token NextToken returns, the end of input and a string
\* literal over several lines included, carries the 1-based line and column
\* of its first character, the characters being the bytes the lexer moves
\* over one at a time: the line is 1 plus the newlines consumed before it,
\* the column 1 plus the characters consumed since the last newline; the
\* counters of the lexer say the same of the character it stands at, so a
\* newline consumed adds one to the line and makes the next column 1.
C21_TokenLineAndColumn ==
    /\ []((pc = "lex" /\ fatal = NoPanic) =>
            /\ lx.line = LineAt(lx.input, lx.pos)
            /\ lx.column = ColumnAt(lx.input, lx.pos))
    /\ [][(CallingNextToken /\ calls' = calls + 1 /\ fatal' = NoPanic) =>
            /\ tok'.Line = LineAt(lx.input, Classified)
            /\ tok'.Column = ColumnAt(lx.input, Classified)
            /\ tok'.Line >= 1
            /\ tok'.Column >= 1]_vars

\* After a string literal that holds a newline, the identifier a has been
\* returned with line 2 and column 2.
C21_Witness ==
    /\ pc = "lex"
    /\ fatal = NoPanic
    /\ lx.input = Str(<<"\"", "\n", "\"", "a">>)
    /\ calls = 2
    /\ tok = Token("IDENTIFIER", Str(<<"a">>), 2, 2)

\* The end of input after a newline has been returned with line 2 and
\* column 1.
C21_EndOfInputAfterNewline ==
    /\ pc = "lex"
    /\ lx.input = Str(<<"a", "\n">>)
    /\ tok = Token("EOF", <<>>, 2, 1)

\* Run is called, is running or has returned for the bytecode compiled from
\* the tree ParseProgram returned for a source, other tokens following its
\* chain.
SourceRuns == given.kind = "trailed" /\ pc \in {"vm", "run", "ran", "done"}

\* C22: for a source on which ParseProgram leaves the error list empty,
\* running the bytecode compiled from the returned tree never pops from an
\* empty stack, never raises sp above 2 and ends with sp = 1, one value on
\* the stack: neither the overflow nor the underflow is reached.
C22_StackOfAtMostTwo ==
    /\ [](SourceRuns =>
            /\ Len(p.errors) = 0
            /\ fatal = NoPanic
            /\ vm.sp \in 0..2
            /\ (pc = "run" /\ ip > 0) => vm.sp >= 1
            /\ pc \in {"ran", "done"} =>
                  /\ runErr = Nil
                  /\ vm.sp = 1
                  /\ Slot(vm, 0).kind = "int64"
            /\ pc = "done" => top = Slot(vm, 0))
    /\ [][(given.kind = "trailed" /\ RunIterates) =>
            /\ RunLoads \/ RunCalculates
            /\ RunLoads => (vm.sp < 2 /\ vm'.sp = vm.sp + 1)
            /\ RunCalculates => (vm.sp = 2 /\ vm'.sp = 1)
            /\ pc' = "run"]_vars

\* Run has returned from the bytecode of 12-7+12, which a 7 follows in the
\* source: one value on the stack, and main has read 17 from it.
C22_Witness ==
    /\ SourceRuns
    /\ pc = "done"
    /\ lx.input = Str(<<"1", "2", "-", "7", "+", "1", "2", " ", "7">>)
    /\ Len(vm.bytecode.Instructions) = 11
    /\ vm.sp = 1
    /\ top = Int64Value(I64(17))

==========================================================================
